---- MODULE Spec2Model ----
(***************************************************************************)
(* Model of the genesis-pipeline core: the feed client and its             *)
(* normalisation (internal/parser/arxiv), Paper.Version (internal/model),  *)
(* the two-level quality filter (internal/filter), the tables papers and   *)
(* sync_log (internal/storage), validation and the benchmark report        *)
(* (internal/validation, internal/benchmark), the pipeline command         *)
(* (cmd/pipeline), sync (internal/api) and the API server (cmd/api).       *)
(*                                                                         *)
(* A Go string is modelled as a sequence of one-character strings, so that *)
(* substring search, splitting, trimming and case folding are computed     *)
(* the way the library calls compute them.                                 *)
(***************************************************************************)
EXTENDS Integers, Sequences, FiniteSets, TLC

VARIABLES
    evaluationKeywords,  \* filter.go package variable
    hypeKeywords,        \* filter.go package variable
    frameworkKeywords,   \* filter.go package variable
    limitationKeywords,  \* filter.go package variable
    MinScore,            \* Filter.MinScore
    feed,                \* atomFeed.Entries handed to convertEntries
    papers,              \* the []model.Paper a caller holds
    results,             \* what Apply returned
    passed,              \* what FilterPassed returned
    scratch,             \* what an evaluation by another caller returned
    id,                  \* Paper.ID of the receiver of Version
    version,             \* what Version returned
    done,                \* the calls that have returned
    baseURL,             \* Client.baseURL
    replies,             \* what the feed server answers to the next GETs
    gets,                \* the GETs issued so far, each with the answer it got
    ret,                 \* what FetchPapers returned
    store,               \* the rows of the table papers
    handed,              \* the last call of Save or SaveBatch and its error
    clock,               \* the time of the database, one tick a call
    run,                 \* the last run of the pipeline command or of sync
    workers,             \* the evaluations in progress, one for each Paper
    valResult,           \* what ValidatePapers returned
    verdicts,            \* what IsValid returned for each Paper of the caller
    report,              \* what GenerateReport returned
    cleaning,            \* the calls of cleanText by a caller: arguments, place, s and results
    callers,             \* the calls of SaveBatchWithStats in progress
    syncLog,             \* the rows of the table sync_log, the row with id k at place k
    syncRet,             \* what the last call of a SyncRepository method returned
    server,              \* the API server process: main, its goroutine, the listener, the pool
    requests             \* the requests the API server has accepted, in order of arrival

vars == <<evaluationKeywords, hypeKeywords, frameworkKeywords, limitationKeywords,
          MinScore, feed, papers, results, passed, scratch, id, version, done,
          baseURL, replies, gets, ret, store, handed, clock, run,
          workers, valResult, verdicts, report, cleaning, callers,
          syncLog, syncRet, server, requests>>

tables == <<evaluationKeywords, hypeKeywords, frameworkKeywords, limitationKeywords>>

\* what lies outside the filter and the normalisation
io == <<baseURL, replies, gets, ret, store, handed, clock, run>>

-----------------------------------------------------------------------------
(* Bounds of the model. *)

\* the largest number of vocabulary words joined into an Abstract
MaxWords == 4
\* the longest sequence of Papers handed to the filter
MaxPapers == 2
\* the longest identifier handed to Version
MaxIDLen == 4
\* the largest number of fragments joined into a raw feed identifier
MaxIDParts == 2
\* the longest feed handed to convertEntries
MaxEntries == 2
\* the longest run of characters a raw text is generated from
MaxTextLen == 4
\* the largest number of author or category elements of a feed entry
MaxAuthors == 3
\* the largest number of link elements of a feed entry
MaxLinks == 2

\* the largest number of answers the feed server has ready
MaxReplies == 2

\* the largest number of Papers handed to one SaveBatch by a direct caller
MaxBatch == 2
\* the largest number of calls of Save and SaveBatch by direct callers
MaxSaves == 3

\* the largest number of calls of the methods of SyncRepository
MaxSyncCalls == 4

\* the largest number of requests the API server accepts
MaxRequests == 2

-----------------------------------------------------------------------------
(* Strings. *)

UpperLetters == <<"A", "B", "C", "D", "E", "F", "G", "H", "I", "J", "K", "L", "M", "N", "O", "P", "Q", "R", "S", "T", "U", "V", "W", "X", "Y", "Z">>
LowerLetters == <<"a", "b", "c", "d", "e", "f", "g", "h", "i", "j", "k", "l", "m", "n", "o", "p", "q", "r", "s", "t", "u", "v", "w", "x", "y", "z">>
Digits == <<"0", "1", "2", "3", "4", "5", "6", "7", "8", "9">>

\* unicode.ToLower on the upper-case ASCII letters
LowerMap == [c \in {UpperLetters[k] : k \in 1..26} |->
                LowerLetters[CHOOSE k \in 1..26 : UpperLetters[k] = c]]

\* unicode.ToLower on one ASCII character
lowerChar(c) == IF c \in DOMAIN LowerMap THEN LowerMap[c] ELSE c

\* strings.ToLower
ToLower(s) == [k \in 1..Len(s) |-> lowerChar(s[k])]

\* s[i:j] of Go, with 0-based i and j
Slice(s, i, j) == SubSeq(s, i + 1, j)

\* strings.HasPrefix of s[i:]
HasPrefixAt(s, i, sub) ==
    /\ i + Len(sub) <= Len(s)
    /\ \A k \in 1..Len(sub) : s[i + k] = sub[k]

\* strings.Index of s[i:], as a 0-based place in s, -1 when there is none
RECURSIVE indexFrom(_, _, _)
indexFrom(s, sub, i) ==
    IF i + Len(sub) > Len(s)
    THEN -1
    ELSE IF HasPrefixAt(s, i, sub) THEN i ELSE indexFrom(s, sub, i + 1)

\* strings.Index: the 0-based place of the first occurrence, -1 when there is none
Index(s, sub) == indexFrom(s, sub, 0)

\* strings.Contains
Contains(s, sub) == \E i \in 0..(Len(s) - Len(sub)) : HasPrefixAt(s, i, sub)

\* strings.HasSuffix
HasSuffix(s, sub) == Len(sub) <= Len(s) /\ HasPrefixAt(s, Len(s) - Len(sub), sub)

\* unicode.IsSpace on the characters of the model
IsSpace(c) == c \in {" ", "\n", "\t", "\r"}

RECURSIVE TrimLeft(_)
TrimLeft(s) == IF s # <<>> /\ IsSpace(Head(s)) THEN TrimLeft(Tail(s)) ELSE s

RECURSIVE TrimRight(_)
TrimRight(s) ==
    IF s # <<>> /\ IsSpace(s[Len(s)]) THEN TrimRight(SubSeq(s, 1, Len(s) - 1)) ELSE s

\* strings.TrimSpace
TrimSpace(s) == TrimRight(TrimLeft(s))

\* strings.Split with a non-empty separator: the pieces between the
\* non-overlapping occurrences of sep, found from the left
RECURSIVE Split(_, _)
Split(s, sep) ==
    LET i == Index(s, sep)
    IN  IF i < 0
        THEN <<s>>
        ELSE <<Slice(s, 0, i)>> \o Split(Slice(s, i + Len(sep), Len(s)), sep)

\* strings.ReplaceAll with a non-empty old: the non-overlapping occurrences
\* of old, found from the left, each replaced by new
RECURSIVE ReplaceAll(_, _, _)
ReplaceAll(s, old, new) ==
    LET i == Index(s, old)
    IN  IF i < 0
        THEN s
        ELSE Slice(s, 0, i) \o new \o ReplaceAll(Slice(s, i + Len(old), Len(s)), old, new)

\* the concatenation of a sequence of strings
RECURSIVE Concat(_)
Concat(ss) == IF ss = <<>> THEN <<>> ELSE Head(ss) \o Concat(Tail(ss))

\* the sequences over S of length at most n
SeqsUpTo(S, n) == UNION {[1..k -> S] : k \in 0..n}

-----------------------------------------------------------------------------
(* internal/model: Paper, Link and Paper.Version. *)

\* model.Link
Link(url, type, title) == [URL |-> url, Type |-> type, Title |-> title]

\* model.Paper with its computed fields at their zero values
Paper(ID, Title, Abstract, Comments, DOI, JournalRef, Links) ==
    [ID |-> ID, Title |-> Title, Abstract |-> Abstract, Authors |-> <<>>,
     Categories |-> <<>>, UpdatedAt |-> 0, Comments |-> Comments, DOI |-> DOI,
     JournalRef |-> JournalRef, Links |-> Links, Score |-> 0, ScoreDetails |-> <<>>]

IsDigit(c) == \E k \in 1..10 : Digits[k] = c

\* int(c - '0')
digitValue(c) == (CHOOSE k \in 1..10 : Digits[k] = c) - 1

\* The inner loop of Version, from 0-based index j with v accumulated so far:
\* every digit of ID[j:] is folded into v, every other character is skipped.
RECURSIVE versionDigits(_, _, _)
versionDigits(ID, j, v) ==
    IF j >= Len(ID)
    THEN v
    ELSE versionDigits(ID, j + 1,
                       IF IsDigit(ID[j + 1]) THEN v * 10 + digitValue(ID[j + 1]) ELSE v)

\* The outer loop of Version, from 0-based index i downwards: the first 'v'
\* that is not the last character and whose digits give v > 0 decides.
RECURSIVE versionScan(_, _)
versionScan(ID, i) ==
    IF i < 0
    THEN 1
    ELSE IF ID[i + 1] = "v" /\ i + 1 < Len(ID) /\ versionDigits(ID, i + 1, 0) > 0
         THEN versionDigits(ID, i + 1, 0)
         ELSE versionScan(ID, i - 1)

\* Paper.Version.  The identifiers of the model are too short for the
\* accumulator v to leave the range of int.
Version(ID) == versionScan(ID, Len(ID) - 1)

\* An int of 64 bits is held as four limbs of 16 bits in two's complement,
\* the lowest limb first.
LimbBase == 65536

Int64Limbs == 4

\* int(0) and int(1)
zero64 == [k \in 1..Int64Limbs |-> 0]

one64 == [k \in 1..Int64Limbs |-> IF k = 1 THEN 1 ELSE 0]

\* the limbs of v*10 + carry from limb i on; what is carried out of the
\* highest limb is lost, which is the wraparound of v*10 + d
RECURSIVE mulAdd(_, _, _)
mulAdd(v, i, carry) ==
    IF i > Len(v)
    THEN <<>>
    ELSE LET t == v[i] * 10 + carry
         IN  <<t % LimbBase>> \o mulAdd(v, i + 1, t \div LimbBase)

\* v > 0 for an int of 64 bits
isPositive64(v) == v[Len(v)] < LimbBase \div 2 /\ v # zero64

\* v < 0 for an int of 64 bits
isNegative64(v) == v[Len(v)] >= LimbBase \div 2

\* The inner loop of Version on an int of 64 bits.
RECURSIVE versionDigits64(_, _, _)
versionDigits64(ID, j, v) ==
    IF j >= Len(ID)
    THEN v
    ELSE versionDigits64(ID, j + 1,
                         IF IsDigit(ID[j + 1]) THEN mulAdd(v, 1, digitValue(ID[j + 1])) ELSE v)

\* versionScan64 with "if v != 0" for "if v > 0"
RECURSIVE versionScan64NonZero(_, _)
versionScan64NonZero(ID, i) ==
    IF i < 0
    THEN one64
    ELSE IF ID[i + 1] = "v" /\ i + 1 < Len(ID) /\ versionDigits64(ID, i + 1, zero64) # zero64
         THEN versionDigits64(ID, i + 1, zero64)
         ELSE versionScan64NonZero(ID, i - 1)

\* The outer loop of Version on an int of 64 bits.
RECURSIVE versionScan64(_, _)
versionScan64(ID, i) ==
    IF i < 0
    THEN one64
    ELSE IF ID[i + 1] = "v" /\ i + 1 < Len(ID) /\ isPositive64(versionDigits64(ID, i + 1, zero64))
         THEN versionDigits64(ID, i + 1, zero64)
         ELSE versionScan64(ID, i - 1)

\* Paper.Version with v an int of 64 bits that wraps around
Version64(ID) == versionScan64(ID, Len(ID) - 1)

-----------------------------------------------------------------------------
(* internal/filter: the keyword tables and patterns. *)

\* the initial value of evaluationKeywords
EvaluationKeywords ==
    << <<"e", "v", "a", "l", "u", "a", "t", "i", "o", "n">>, <<"e", "x", "p", "e", "r", "i", "m", "e", "n", "t">>, <<"b", "e", "n", "c", "h", "m", "a", "r", "k">>, <<"a", "b", "l", "a", "t", "i", "o", "n">>,
       <<"b", "a", "s", "e", "l", "i", "n", "e">>, <<"d", "a", "t", "a", "s", "e", "t">>, <<"m", "e", "t", "r", "i", "c">> >>

\* the initial value of hypeKeywords
HypeKeywords ==
    << <<"r", "e", "v", "o", "l", "u", "t", "i", "o", "n", "a", "r", "y">>, <<"g", "r", "o", "u", "n", "d", "b", "r", "e", "a", "k", "i", "n", "g">>, <<"f", "i", "r", "s", "t", " ", "e", "v", "e", "r">>, <<"f", "i", "r", "s", "t", "-", "e", "v", "e", "r">> >>

\* the initial value of frameworkKeywords
FrameworkKeywords == << <<"f", "r", "a", "m", "e", "w", "o", "r", "k">>, <<"p", "e", "r", "s", "p", "e", "c", "t", "i", "v", "e">> >>

\* the initial value of limitationKeywords
LimitationKeywords == << <<"l", "i", "m", "i", "t", "a", "t", "i", "o", "n">>, <<"a", "s", "s", "u", "m", "p", "t", "i", "o", "n">>, <<"c", "o", "n", "s", "t", "r", "a", "i", "n", "t">> >>

\* acceptedPattern.MatchString: (?i)(accepted|to appear|camera[- ]?ready|proceedings)
acceptedPattern(s) ==
    LET lower == ToLower(s)
    IN  \E alt \in { <<"a", "c", "c", "e", "p", "t", "e", "d">>, <<"t", "o", " ", "a", "p", "p", "e", "a", "r">>, <<"c", "a", "m", "e", "r", "a", "-", "r", "e", "a", "d", "y">>, <<"c", "a", "m", "e", "r", "a", " ", "r", "e", "a", "d", "y">>,
                 <<"c", "a", "m", "e", "r", "a", "r", "e", "a", "d", "y">>, <<"p", "r", "o", "c", "e", "e", "d", "i", "n", "g", "s">> } :
            Contains(lower, alt)

\* codeRepoPattern.MatchString: https?://(github\.com|gitlab\.com)/\S+
codeRepoPattern(s) ==
    \E pre \in { <<"h", "t", "t", "p", ":", "/", "/", "g", "i", "t", "h", "u", "b", ".", "c", "o", "m", "/">>, <<"h", "t", "t", "p", "s", ":", "/", "/", "g", "i", "t", "h", "u", "b", ".", "c", "o", "m", "/">>,
                 <<"h", "t", "t", "p", ":", "/", "/", "g", "i", "t", "l", "a", "b", ".", "c", "o", "m", "/">>, <<"h", "t", "t", "p", "s", ":", "/", "/", "g", "i", "t", "l", "a", "b", ".", "c", "o", "m", "/">> } :
        \E i \in 0..Len(s) :
            /\ HasPrefixAt(s, i, pre)
            /\ i + Len(pre) < Len(s)
            /\ s[i + Len(pre) + 1] \notin {" ", "\n", "\t", "\r"}

\* countKeywords
countKeywords(text, keywords) ==
    LET lower == ToLower(text)
    IN  Cardinality({k \in 1..Len(keywords) : Contains(lower, ToLower(keywords[k]))})

\* containsAny without the case folding of the text
containsAnyCaseSensitive(text, keywords) ==
    \E k \in 1..Len(keywords) : Contains(text, ToLower(keywords[k]))

\* containsAny
containsAny(text, keywords) ==
    LET lower == ToLower(text)
    IN  \E k \in 1..Len(keywords) : Contains(lower, ToLower(keywords[k]))

\* hasCodeLink looking only at the Type of the links
hasCodeLinkByType(paper) ==
    \/ codeRepoPattern(paper.Abstract)
    \/ codeRepoPattern(paper.Comments)
    \/ \E k \in 1..Len(paper.Links) : paper.Links[k].Type = "code"

\* hasCodeLink
hasCodeLink(paper) ==
    \/ codeRepoPattern(paper.Abstract)
    \/ codeRepoPattern(paper.Comments)
    \/ \E k \in 1..Len(paper.Links) :
          \/ paper.Links[k].Type = "code"
          \/ codeRepoPattern(paper.Links[k].URL)

-----------------------------------------------------------------------------
(* internal/filter: evaluate, Apply and FilterPassed. *)

\* NewFilter: the default MinScore
DefaultMinScore == 60

\* addIf with "score = delta" for "score += delta"
addIfAssign(acc, cond, delta, detail) ==
    IF cond
    THEN [score |-> delta, details |-> Append(acc.details, detail)]
    ELSE acc

\* One "if cond { score += delta; details = append(details, detail) }" step.
addIf(acc, cond, delta, detail) ==
    IF cond
    THEN [score |-> acc.score + delta, details |-> Append(acc.details, detail)]
    ELSE acc

\* hardGate with "||" for "&&"
hardGateOr(hasAcceptedSignal, hasDOI, hasJournalRef, evalCount) ==
    hasAcceptedSignal \/ hasDOI \/ hasJournalRef \/ evalCount >= 3 \/ evalCount >= 2

\* hardGate without hasMinEvaluation
hardGateSignalOnly(hasAcceptedSignal, hasDOI, hasJournalRef, evalCount) ==
    hasAcceptedSignal \/ hasDOI \/ hasJournalRef \/ evalCount >= 3

\* The hard gate: hasStrongSignal && hasMinEvaluation.
hardGate(hasAcceptedSignal, hasDOI, hasJournalRef, evalCount) ==
    LET hasStrongEvidence == evalCount >= 3
        hasStrongSignal == hasAcceptedSignal \/ hasDOI \/ hasJournalRef \/ hasStrongEvidence
        hasMinEvaluation == evalCount >= 2
    IN  hasStrongSignal /\ hasMinEvaluation

\* clampScore without the upper clamp
clampScoreNoUpper(score) == IF score < 0 THEN 0 ELSE score

\* "Ensure score is in valid range"
clampScore(score) ==
    LET low == IF score < 0 THEN 0 ELSE score
    IN  IF low > 100 THEN 100 ELSE low

\* The ten "if cond { score += delta; details = append(details, detail) }"
\* statements of evaluate, in the order of the source.
modifiers(paper) ==
    LET evalCount == countKeywords(paper.Abstract, evaluationKeywords)
        m(cond, delta, detail) == [cond |-> cond, delta |-> delta, detail |-> detail]
    IN  << m(acceptedPattern(paper.Comments), 30, "+30 acceptance signal"),
           m(paper.DOI # <<>> \/ paper.JournalRef # <<>>, 20, "+20 DOI/journal reference"),
           m(evalCount >= 3, 15, "+15 strong empirical evidence"),
           m(containsAny(paper.Abstract, <<<<"a", "b", "l", "a", "t", "i", "o", "n">>, <<"b", "a", "s", "e", "l", "i", "n", "e">>>>),
             10, "+10 ablation/baseline study"),
           m(containsAny(paper.Abstract, <<<<"d", "a", "t", "a", "s", "e", "t">>, <<"b", "e", "n", "c", "h", "m", "a", "r", "k">>>>),
             10, "+10 dataset/benchmark"),
           m(hasCodeLink(paper), 10, "+10 code link present"),
           m(containsAny(paper.Abstract, limitationKeywords), 5, "+5 limitation discussion"),
           m(Version(paper.ID) >= 2, 5, "+5 multi-version iteration"),
           m(\/ containsAny(paper.Abstract, hypeKeywords)
             \/ containsAny(paper.Title, hypeKeywords),
             -10, "-10 hype language"),
           m(containsAny(paper.Abstract, frameworkKeywords) /\ evalCount = 0,
             -25, "-25 unvalidated framework claim") >>

\* the statements ms executed in the given order, from score and details acc
RECURSIVE runModifiers(_, _, _)
runModifiers(ms, order, acc) ==
    IF order = <<>>
    THEN acc
    ELSE LET s == ms[Head(order)]
         IN  runModifiers(ms, Tail(order), addIf(acc, s.cond, s.delta, s.detail))

\* the Score and Details of evaluate with its ten statements in another order
scoreInOrder(ms, order) ==
    LET a == runModifiers(ms, order, [score |-> 0, details |-> <<>>])
    IN  [Score |-> clampScore(a.score), Details |-> a.details]

\* evaluate with the hype statement ahead of the multi-version statement
evaluateHypeFirst(paper) ==
    LET s == scoreInOrder(modifiers(paper), <<1, 2, 3, 4, 5, 6, 7, 9, 8, 10>>)
        evalCount == countKeywords(paper.Abstract, evaluationKeywords)
    IN  [Paper |-> paper,
         PassedLevel1 |-> hardGate(acceptedPattern(paper.Comments), paper.DOI # <<>>,
                                   paper.JournalRef # <<>>, evalCount),
         Score |-> s.Score,
         Details |-> s.Details]

\* Filter.evaluate.  The detail strings of the source are not ASCII; each is
\* written here as its signed delta followed by an English name.
evaluate(paper) ==
    LET evalCount == countKeywords(paper.Abstract, evaluationKeywords)
        hasAcceptedSignal == acceptedPattern(paper.Comments)
        hasDOI == paper.DOI # <<>>
        hasJournalRef == paper.JournalRef # <<>>
        a0 == [score |-> 0, details |-> <<>>]
        a1 == addIf(a0, hasAcceptedSignal, 30, "+30 acceptance signal")
        a2 == addIf(a1, hasDOI \/ hasJournalRef, 20, "+20 DOI/journal reference")
        a3 == addIf(a2, evalCount >= 3, 15, "+15 strong empirical evidence")
        a4 == addIf(a3, containsAny(paper.Abstract, << <<"a", "b", "l", "a", "t", "i", "o", "n">>, <<"b", "a", "s", "e", "l", "i", "n", "e">> >>),
                    10, "+10 ablation/baseline study")
        a5 == addIf(a4, containsAny(paper.Abstract, << <<"d", "a", "t", "a", "s", "e", "t">>, <<"b", "e", "n", "c", "h", "m", "a", "r", "k">> >>),
                    10, "+10 dataset/benchmark")
        a6 == addIf(a5, hasCodeLink(paper), 10, "+10 code link present")
        a7 == addIf(a6, containsAny(paper.Abstract, limitationKeywords),
                    5, "+5 limitation discussion")
        a8 == addIf(a7, Version(paper.ID) >= 2, 5, "+5 multi-version iteration")
        a9 == addIf(a8, \/ containsAny(paper.Abstract, hypeKeywords)
                        \/ containsAny(paper.Title, hypeKeywords),
                    -10, "-10 hype language")
        a10 == addIf(a9, containsAny(paper.Abstract, frameworkKeywords) /\ evalCount = 0,
                     -25, "-25 unvalidated framework claim")
    IN  [Paper |-> paper,
         PassedLevel1 |-> hardGate(hasAcceptedSignal, hasDOI, hasJournalRef, evalCount),
         Score |-> clampScore(a10.score),
         Details |-> a10.details]

\* Filter.Apply
Apply(ps) == [k \in 1..Len(ps) |-> evaluate(ps[k])]

\* filterStep with "result.Score > f.MinScore"
filterStepStrict(acc, paper) ==
    LET result == evaluate(paper)
    IN  IF result.PassedLevel1 /\ result.Score > MinScore
        THEN Append(acc, [paper EXCEPT !.Score = result.Score,
                                       !.ScoreDetails = result.Details])
        ELSE acc

\* filterStep skipping a Paper whose ID is already in passed
filterStepDedupe(acc, paper) ==
    LET result == evaluate(paper)
    IN  IF /\ result.PassedLevel1
           /\ result.Score >= MinScore
           /\ \A k \in 1..Len(acc) : acc[k].ID # paper.ID
        THEN Append(acc, [paper EXCEPT !.Score = result.Score,
                                       !.ScoreDetails = result.Details])
        ELSE acc

\* The body of FilterPassed's loop for one paper: passed with the paper
\* appended, Score and ScoreDetails set, when it passed both levels.
filterStep(acc, paper) ==
    LET result == evaluate(paper)
    IN  IF result.PassedLevel1 /\ result.Score >= MinScore
        THEN Append(acc, [paper EXCEPT !.Score = result.Score,
                                       !.ScoreDetails = result.Details])
        ELSE acc

\* The loop of FilterPassed over ps[k..], with passed accumulated so far.
RECURSIVE filterLoop(_, _, _)
filterLoop(ps, k, acc) ==
    IF k > Len(ps) THEN acc ELSE filterLoop(ps, k + 1, filterStep(acc, ps[k]))

\* Filter.FilterPassed
FilterPassed(ps) == filterLoop(ps, 1, <<>>)

\* An evaluation in progress: the place in evaluate, and its locals evalCount,
\* result.PassedLevel1, score and details.
Worker(pc, evalCount, passedLevel1, acc) ==
    [pc |-> pc, evalCount |-> evalCount, PassedLevel1 |-> passedLevel1, acc |-> acc]

\* evaluate has been called and has read nothing yet
NewWorker == Worker("count", 0, FALSE, [score |-> 0, details |-> <<>>])

\* evaluate up to the code link: the read of evaluationKeywords, the hard
\* gate and the modifiers that read no package variable but the patterns
stepCount(w, paper) ==
    LET evalCount == countKeywords(paper.Abstract, evaluationKeywords)
        hasAcceptedSignal == acceptedPattern(paper.Comments)
        hasDOI == paper.DOI # <<>>
        hasJournalRef == paper.JournalRef # <<>>
        a1 == addIf(w.acc, hasAcceptedSignal, 30, "+30 acceptance signal")
        a2 == addIf(a1, hasDOI \/ hasJournalRef, 20, "+20 DOI/journal reference")
        a3 == addIf(a2, evalCount >= 3, 15, "+15 strong empirical evidence")
        a4 == addIf(a3, containsAny(paper.Abstract, <<<<"a", "b", "l", "a", "t", "i", "o", "n">>, <<"b", "a", "s", "e", "l", "i", "n", "e">>>>),
                    10, "+10 ablation/baseline study")
        a5 == addIf(a4, containsAny(paper.Abstract, <<<<"d", "a", "t", "a", "s", "e", "t">>, <<"b", "e", "n", "c", "h", "m", "a", "r", "k">>>>),
                    10, "+10 dataset/benchmark")
        a6 == addIf(a5, hasCodeLink(paper), 10, "+10 code link present")
    IN  Worker("limitation", evalCount,
               hardGate(hasAcceptedSignal, hasDOI, hasJournalRef, evalCount), a6)

\* evaluate from the read of limitationKeywords to the version
stepLimitation(w, paper) ==
    LET a7 == addIf(w.acc, containsAny(paper.Abstract, limitationKeywords),
                    5, "+5 limitation discussion")
        a8 == addIf(a7, Version(paper.ID) >= 2, 5, "+5 multi-version iteration")
    IN  [w EXCEPT !.pc = "hype", !.acc = a8]

\* evaluate's reads of hypeKeywords
stepHype(w, paper) ==
    [w EXCEPT !.pc = "framework",
              !.acc = addIf(w.acc, \/ containsAny(paper.Abstract, hypeKeywords)
                                   \/ containsAny(paper.Title, hypeKeywords),
                            -10, "-10 hype language")]

\* evaluate from the read of frameworkKeywords to the return
stepFramework(w, paper) ==
    [w EXCEPT !.pc = "done",
              !.acc = addIf(w.acc, containsAny(paper.Abstract, frameworkKeywords) /\ w.evalCount = 0,
                            -25, "-25 unvalidated framework claim")]

\* the FilterResult a finished evaluation returns
workerResult(w, paper) ==
    [Paper |-> paper, PassedLevel1 |-> w.PassedLevel1,
     Score |-> clampScore(w.acc.score), Details |-> w.acc.details]

\* the loop of FilterPassed over results evaluated beforehand
collectPassed(rs) ==
    LET keep == SelectSeq(rs, LAMBDA r : r.PassedLevel1 /\ r.Score >= MinScore)
    IN  [k \in 1..Len(keep) |-> [keep[k].Paper EXCEPT !.Score = keep[k].Score,
                                                       !.ScoreDetails = keep[k].Details]]

-----------------------------------------------------------------------------
(* internal/parser/arxiv: normalisation of feed entries. *)

\* atomLink
AtomLink(href, rel, type, title) == [Href |-> href, Rel |-> rel, Type |-> type, Title |-> title]

\* cleanText's loop: for strings.Contains(s, "  ") { s = ReplaceAll(s, "  ", " ") }
RECURSIVE collapseSpaces(_)
collapseSpaces(s) ==
    IF Contains(s, <<" ", " ">>)
    THEN collapseSpaces(ReplaceAll(s, <<" ", " ">>, <<" ">>))
    ELSE s

\* cleanText with the two spaces collapsed in one pass instead of the loop
cleanTextOnePass(s) ==
    ReplaceAll(ReplaceAll(TrimSpace(s), <<"\n">>, <<" ">>), <<" ", " ">>, <<" ">>)

\* cleanText
cleanText(s) == collapseSpaces(ReplaceAll(TrimSpace(s), <<"\n">>, <<" ">>))

\* A caller's calls of cleanText: the arguments so far, the place in the
\* call in progress, its s, and the results so far.
Cleaning(args, pc, s, outs) == [args |-> args, pc |-> pc, s |-> s, outs |-> outs]

\* cleanText has not been called
NotCleaning == Cleaning(<<>>, "idle", <<>>, <<>>)

\* strings.Trim(s, " ")
RECURSIVE TrimBlanks(_)
TrimBlanks(s) ==
    IF s # <<>> /\ Head(s) = " " THEN TrimBlanks(Tail(s))
    ELSE IF s # <<>> /\ s[Len(s)] = " " THEN TrimBlanks(SubSeq(s, 1, Len(s) - 1))
    ELSE s

\* cleanText up to its loop, with strings.Trim(s, " ") for strings.TrimSpace(s)
cleanStartTrimBlanks(s) == ReplaceAll(TrimBlanks(s), <<"\n">>, <<" ">>)

\* cleanText up to its loop: s = strings.TrimSpace(s) and
\* s = strings.ReplaceAll(s, "\n", " ")
cleanStart(s) == ReplaceAll(TrimSpace(s), <<"\n">>, <<" ">>)

\* the condition of cleanText's loop
cleanLoops(s) == Contains(s, <<" ", " ">>)

\* the body of cleanText's loop
cleanPass(s) == ReplaceAll(s, <<" ", " ">>, <<" ">>)

\* extractID
extractID(rawID) ==
    LET parts == Split(rawID, <<"/", "a", "b", "s", "/">>)
    IN  IF Len(parts) = 2 THEN parts[2] ELSE rawID

\* extractAuthors keeping only the first occurrence of a name
RECURSIVE extractAuthorsDedupe(_)
extractAuthorsDedupe(authors) ==
    IF authors = <<>>
    THEN <<>>
    ELSE LET front == extractAuthorsDedupe(SubSeq(authors, 1, Len(authors) - 1))
             name == TrimSpace(authors[Len(authors)].Name)
         IN  IF name = <<>> \/ \E k \in 1..Len(front) : front[k] = name
             THEN front
             ELSE Append(front, name)

\* extractAuthors
RECURSIVE extractAuthors(_)
extractAuthors(authors) ==
    IF authors = <<>>
    THEN <<>>
    ELSE LET name == TrimSpace(Head(authors).Name)
         IN  (IF name # <<>> THEN <<name>> ELSE <<>>) \o extractAuthors(Tail(authors))

\* extractCategories
RECURSIVE extractCategories(_)
extractCategories(categories) ==
    IF categories = <<>>
    THEN <<>>
    ELSE LET term == TrimSpace(Head(categories).Term)
         IN  (IF term # <<>> THEN <<term>> ELSE <<>>) \o extractCategories(Tail(categories))

\* linkType with the repository test ahead of the rel test
linkTypeCodeFirst(l) ==
    IF Contains(l.Type, <<"p", "d", "f">>) \/ HasSuffix(l.Href, <<".", "p", "d", "f">>)
    THEN "pdf"
    ELSE IF Contains(l.Href, <<"g", "i", "t", "h", "u", "b", ".", "c", "o", "m">>) \/ Contains(l.Href, <<"g", "i", "t", "l", "a", "b", ".", "c", "o", "m">>)
         THEN "code"
         ELSE IF l.Rel = <<"a", "l", "t", "e", "r", "n", "a", "t", "e">>
              THEN "abstract"
              ELSE "other"

\* The type extractLinks gives one link with a non-empty Href.
linkType(l) ==
    IF Contains(l.Type, <<"p", "d", "f">>) \/ HasSuffix(l.Href, <<".", "p", "d", "f">>)
    THEN "pdf"
    ELSE IF l.Rel = <<"a", "l", "t", "e", "r", "n", "a", "t", "e">>
         THEN "abstract"
         ELSE IF Contains(l.Href, <<"g", "i", "t", "h", "u", "b", ".", "c", "o", "m">>) \/ Contains(l.Href, <<"g", "i", "t", "l", "a", "b", ".", "c", "o", "m">>)
              THEN "code"
              ELSE "other"

\* extractLinks
RECURSIVE extractLinks(_)
extractLinks(links) ==
    IF links = <<>>
    THEN <<>>
    ELSE LET l == Head(links)
         IN  (IF l.Href = <<>>
              THEN <<>>
              ELSE <<Link(l.Href, linkType(l), l.Title)>>) \o extractLinks(Tail(links))

\* The Paper convertEntries builds from one entry.
convertEntry(entry) ==
    [ID |-> extractID(entry.ID),
     Title |-> cleanText(entry.Title),
     Abstract |-> cleanText(entry.Summary),
     Authors |-> extractAuthors(entry.Authors),
     Categories |-> extractCategories(entry.Categories),
     UpdatedAt |-> entry.Updated,
     Comments |-> cleanText(entry.Comment),
     DOI |-> TrimSpace(entry.DOI),
     JournalRef |-> TrimSpace(entry.JournalRef),
     Links |-> extractLinks(entry.Links),
     Score |-> 0,
     ScoreDetails |-> <<>>]

\* Client.convertEntries
convertEntries(entries) == [k \in 1..Len(entries) |-> convertEntry(entries[k])]

-----------------------------------------------------------------------------
(* internal/parser/arxiv: Client.FetchPapers. *)

\* defaultBaseURL
defaultBaseURL == <<"h", "t", "t", "p", ":", "/", "/", "e", "x", "p", "o", "r", "t", ".", "a", "r", "x", "i", "v", ".", "o", "r", "g", "/", "a", "p", "i", "/", "q", "u", "e", "r", "y">>

\* http.StatusOK
StatusOK == 200

\* url.Parse returns an error: a URL that begins with a colon has no
\* protocol scheme
urlParseFails(u) == u # <<>> /\ u[1] = ":"

\* Client.buildURL: the parameters of the request, or the error of url.Parse
buildURL(base, query, limit) ==
    IF urlParseFails(base)
    THEN [err |-> TRUE, url |-> <<>>]
    ELSE [err |-> FALSE,
          url |-> [base |-> base, search_query |-> <<"a", "l", "l", ":">> \o query,
                   start |-> 0, max_results |-> limit]]

\* xml.NewDecoder(resp.Body).Decode(&feed): a body that is not well-formed
\* XML gives an error; atomFeed declares no XMLName, so the decoder accepts a
\* document with any root element and collects its entry children.
xmlDecode(body) ==
    IF body.wellFormed
    THEN [err |-> FALSE, Entries |-> body.entries]
    ELSE [err |-> TRUE, Entries |-> <<>>]

\* what FetchPapers returns: the papers (nil or a slice) and the error
Return(ps, nil, e) == [papers |-> ps, isNil |-> nil, err |-> e]

\* FetchPapers that asks once more after a transport failure
FetchPapersRetry(base, query, limit, pending) ==
    LET req == buildURL(base, query, IF limit <= 0 THEN 10 ELSE limit)
        retry == Head(pending).transport /\ Len(pending) > 1
        sent == [k \in 1..(IF retry THEN 2 ELSE 1) |-> [url |-> req.url, reply |-> pending[k]]]
        resp == sent[Len(sent)].reply
        rest == SubSeq(pending, Len(sent) + 1, Len(pending))
    IN  IF req.err
        THEN [ret |-> Return(<<>>, TRUE, "build URL"), sent |-> <<>>, pending |-> pending]
        ELSE IF resp.transport
        THEN [ret |-> Return(<<>>, TRUE, "HTTP request"), sent |-> sent, pending |-> rest]
        ELSE IF resp.status # StatusOK
        THEN [ret |-> Return(<<>>, TRUE, "unexpected status code"), sent |-> sent, pending |-> rest]
        ELSE IF xmlDecode(resp.body).err
        THEN [ret |-> Return(<<>>, TRUE, "decode XML"), sent |-> sent, pending |-> rest]
        ELSE [ret |-> Return(convertEntries(xmlDecode(resp.body).Entries), FALSE, "nil"),
              sent |-> sent, pending |-> rest]

\* Client.FetchPapers with the answers the server has ready: what it returns,
\* the GETs it issued and the answers left
FetchPapers(base, query, limit, pending) ==
    LET req == buildURL(base, query, IF limit <= 0 THEN 10 ELSE limit)
        resp == Head(pending)
        sent == <<[url |-> req.url, reply |-> resp]>>
        rest == Tail(pending)
    IN  IF req.err
        THEN [ret |-> Return(<<>>, TRUE, "build URL"), sent |-> <<>>, pending |-> pending]
        ELSE IF resp.transport
        THEN [ret |-> Return(<<>>, TRUE, "HTTP request"), sent |-> sent, pending |-> rest]
        ELSE IF resp.status # StatusOK
        THEN [ret |-> Return(<<>>, TRUE, "unexpected status code"), sent |-> sent, pending |-> rest]
        ELSE IF xmlDecode(resp.body).err
        THEN [ret |-> Return(<<>>, TRUE, "decode XML"), sent |-> sent, pending |-> rest]
        ELSE [ret |-> Return(convertEntries(xmlDecode(resp.body).Entries), FALSE, "nil"),
              sent |-> sent, pending |-> rest]

-----------------------------------------------------------------------------
(* internal/storage: PaperRepository.Save and SaveBatch on the table papers. *)

\* createTableSQL: id VARCHAR(50)
MaxIDColumn == 50

\* the row the INSERT of Save writes for the paper at time t; created_at is
\* the default NOW()
Row(paper, t) ==
    [id |-> paper.ID, title |-> paper.Title, abstract |-> paper.Abstract,
     authors |-> paper.Authors, categories |-> paper.Categories,
     updated_at |-> paper.UpdatedAt, created_at |-> t]

\* the table accepts the row of the paper
insertable(paper) == Len(paper.ID) <= MaxIDColumn

\* the statement with ON CONFLICT (id) DO NOTHING
upsertDoNothing(rows, paper, t) ==
    IF \E r \in rows : r.id = paper.ID
    THEN rows
    ELSE rows \cup {Row(paper, t)}

\* INSERT ... ON CONFLICT (id) DO UPDATE SET title, abstract, authors,
\* categories, updated_at
upsert(rows, paper, t) ==
    IF \E r \in rows : r.id = paper.ID
    THEN {IF r.id = paper.ID
          THEN [r EXCEPT !.title = paper.Title, !.abstract = paper.Abstract,
                         !.authors = paper.Authors, !.categories = paper.Categories,
                         !.updated_at = paper.UpdatedAt]
          ELSE r : r \in rows}
    ELSE rows \cup {Row(paper, t)}

\* the queued statements of a batch, executed in order
RECURSIVE upsertAll(_, _, _)
upsertAll(rows, ps, t) ==
    IF ps = <<>> THEN rows ELSE upsertAll(upsert(rows, Head(ps), t), Tail(ps), t)

\* PaperRepository.Save: the rows afterwards and the error; up says whether
\* the database can be reached
Save(rows, paper, t, up) ==
    IF up /\ insertable(paper)
    THEN [rows |-> upsert(rows, paper, t), err |-> "nil"]
    ELSE [rows |-> rows, err |-> "save paper"]

\* PaperRepository.SaveBatch: the batch runs in one implicit transaction, so
\* a statement that fails leaves the table as it was
SaveBatch(rows, ps, t, up) ==
    IF up /\ \A k \in 1..Len(ps) : insertable(ps[k])
    THEN [rows |-> upsertAll(rows, ps, t), err |-> "nil"]
    ELSE [rows |-> rows, err |-> "batch save"]

\* PaperRepository.Exists: SELECT EXISTS(SELECT 1 FROM papers WHERE id = $1)
Exists(rows, i) == \E r \in rows : r.id = i

\* A call of SaveBatchWithStats: its batch, the 1-based place k of the Paper
\* of the loop, the place in the loop body, exists, the counts, the error it
\* returned, and the number of rows its statements have added to the table.
StatsCall(batch, k, pc, exists, newCount, updatedCount, e, added) ==
    [batch |-> batch, k |-> k, pc |-> pc, exists |-> exists, newCount |-> newCount,
     updatedCount |-> updatedCount, err |-> e, added |-> added]

\* where the loop of SaveBatchWithStats goes with the k-th Paper next
loopPc(batch, k) == IF k > Len(batch) THEN "returned" ELSE "exists"

\* SaveBatchWithStats has been called with the batch
NewStatsCall(batch) == StatsCall(batch, 1, loopPc(batch, 1), FALSE, 0, 0, "nil", 0)

\* return 0, 0, err
failStats(c, e) == [c EXCEPT !.pc = "returned", !.newCount = 0, !.updatedCount = 0, !.err = e]

\* exists, err := r.Exists(ctx, paper.ID)
statsExists(c, rows, up) ==
    IF up
    THEN [c EXCEPT !.pc = "save", !.exists = Exists(rows, c.batch[c.k].ID)]
    ELSE failStats(c, "check exists")

\* r.Save(ctx, paper) and the count: the call and the rows afterwards
statsSave(c, rows, t, up) ==
    LET paper == c.batch[c.k]
        s == Save(rows, paper, t, up)
    IN  IF s.err # "nil"
        THEN [call |-> failStats(c, s.err), rows |-> rows]
        ELSE [call |-> [c EXCEPT !.k = c.k + 1,
                                 !.pc = loopPc(c.batch, c.k + 1),
                                 !.newCount = IF c.exists THEN c.newCount ELSE c.newCount + 1,
                                 !.updatedCount = IF c.exists THEN c.updatedCount + 1
                                                  ELSE c.updatedCount,
                                 !.added = IF Exists(rows, paper.ID) THEN c.added ELSE c.added + 1],
              rows |-> s.rows]

\* a call of Save or SaveBatch with the Papers it was handed
Handed(op, ps, e) == [op |-> op, papers |-> ps, err |-> e]

\* no Paper has been handed to storage
NotHanded == Handed("none", <<>>, "nil")

-----------------------------------------------------------------------------
(* internal/storage: SyncRepository on the table sync_log. *)

\* a row of sync_log; completed_at 0 is NULL
SyncLog(i, query, fetched, new, updated, started, completed, status) ==
    [ID |-> i, Query |-> query, PapersFetched |-> fetched, PapersNew |-> new,
     PapersUpdated |-> updated, StartedAt |-> started, CompletedAt |-> completed,
     Status |-> status]

\* what a method of SyncRepository returned: the id of StartSync, the row of
\* GetLatestSync, and the error
SyncRet(op, i, log, e) == [op |-> op, id |-> i, log |-> log, err |-> e]

\* no method has been called
NoSyncRet == SyncRet("none", 0, <<>>, "nil")

\* StartSync: INSERT INTO sync_log (query, started_at, status) VALUES ($1,
\* NOW(), 'running') RETURNING id; the other columns take their defaults
StartSync(log, query, t, up) ==
    IF up
    THEN [log |-> Append(log, SyncLog(Len(log) + 1, query, 0, 0, 0, t, 0, "running")),
          ret |-> SyncRet("StartSync", Len(log) + 1, <<>>, "nil")]
    ELSE [log |-> log, ret |-> SyncRet("StartSync", 0, <<>>, "start sync")]

\* CompleteSync: UPDATE sync_log SET papers_fetched, papers_new,
\* papers_updated, completed_at = NOW(), status = 'completed' WHERE id = $1
CompleteSync(log, i, fetched, new, updated, t, up) ==
    IF up
    THEN [log |-> [k \in 1..Len(log) |->
                      IF log[k].ID = i
                      THEN [log[k] EXCEPT !.PapersFetched = fetched, !.PapersNew = new,
                                          !.PapersUpdated = updated, !.CompletedAt = t,
                                          !.Status = "completed"]
                      ELSE log[k]],
          ret |-> SyncRet("CompleteSync", i, <<>>, "nil")]
    ELSE [log |-> log, ret |-> SyncRet("CompleteSync", i, <<>>, "complete sync")]

\* FailSync: UPDATE sync_log SET completed_at = NOW(), status = 'failed'
\* WHERE id = $1
FailSync(log, i, t, up) ==
    IF up
    THEN [log |-> [k \in 1..Len(log) |->
                      IF log[k].ID = i
                      THEN [log[k] EXCEPT !.CompletedAt = t, !.Status = "failed"]
                      ELSE log[k]],
          ret |-> SyncRet("FailSync", i, <<>>, "nil")]
    ELSE [log |-> log, ret |-> SyncRet("FailSync", i, <<>>, "fail sync")]

\* GetLatestSync: SELECT ... WHERE status = 'completed' ORDER BY completed_at
\* DESC LIMIT 1; no row is an error
GetLatestSync(log, up) ==
    LET completed == {k \in 1..Len(log) : log[k].Status = "completed"}
    IN  IF up /\ completed # {}
        THEN [log |-> log,
              ret |-> SyncRet("GetLatestSync", 0,
                              <<log[CHOOSE k \in completed :
                                       \A j \in completed : log[j].CompletedAt <= log[k].CompletedAt]>>,
                              "nil")]
        ELSE [log |-> log, ret |-> SyncRet("GetLatestSync", 0, <<>>, "get latest sync")]

-----------------------------------------------------------------------------
(* cmd/api: the API server and its shutdown. *)

\* The process: where main and the goroutine of the graceful shutdown are,
\* whether a signal was delivered, whether server.Shutdown has closed the
\* listener, and whether pool.Close has been called.
Server(main, shutdown, signalled, inShutdown, poolClosed) ==
    [main |-> main, shutdown |-> shutdown, signalled |-> signalled,
     inShutdown |-> inShutdown, poolClosed |-> poolClosed]

\* no API server runs
NoServer == Server("none", "none", FALSE, FALSE, FALSE)

\* main up to server.ListenAndServe(): the pool is connected, the routes are
\* registered, and the goroutine waits on sigChan
NewServer == Server("serve", "wait", FALSE, FALSE, FALSE)

\* the routes whose handlers go to the repository
PoolRoutes == {"/api/papers", "/api/papers/", "/api/papers/search", "/api/stats", "/api/sync"}

\* A request in its handler: pc is "running" before the handler reaches the
\* pool, "query" while it holds a connection, "done" after the response, and
\* "killed" when the process ended first; pool is what the pool answered.
Request(route, pc, pool) == [route |-> route, pc |-> pc, pool |-> pool]

\* a request is in flight while its handler has not returned
inFlight(r) == r.pc \in {"running", "query"}

\* the process ends: every goroutine still running ends with it
exit(rs) == [k \in 1..Len(rs) |-> IF inFlight(rs[k]) THEN [rs[k] EXCEPT !.pc = "killed"] ELSE rs[k]]

-----------------------------------------------------------------------------
(* internal/validation and internal/benchmark. *)

\* ValidationError
ValidationError(field, message) == [Field |-> field, Message |-> message]

\* ValidatePaper: the errors of one Paper; UpdatedAt 0 is the zero time
ValidatePaper(p) ==
    (IF TrimSpace(p.ID) = <<>>
     THEN <<ValidationError("ID", "cannot be empty")>> ELSE <<>>)
    \o (IF TrimSpace(p.Title) = <<>>
        THEN <<ValidationError("Title", "cannot be empty")>> ELSE <<>>)
    \o (IF Len(p.Authors) = 0
        THEN <<ValidationError("Authors", "must have at least one author")>> ELSE <<>>)
    \o (IF p.UpdatedAt = 0
        THEN <<ValidationError("UpdatedAt", "cannot be zero")>> ELSE <<>>)

\* ValidationResult
ValidationResult(valid, invalid, errors) ==
    [Valid |-> valid, Invalid |-> invalid, Errors |-> errors]

\* ValidationResult{}
NoValidation == ValidationResult(0, 0, <<>>)

\* the body of the loop of ValidatePapers counting one Invalid for each error
validateStepPerError(result, p) ==
    LET errs == ValidatePaper(p)
    IN  IF Len(errs) > 0
        THEN ValidationResult(result.Valid, result.Invalid + Len(errs), result.Errors \o errs)
        ELSE ValidationResult(result.Valid + 1, result.Invalid, result.Errors)

\* the body of the loop of ValidatePapers for one Paper
validateStep(result, p) ==
    LET errs == ValidatePaper(p)
    IN  IF Len(errs) > 0
        THEN ValidationResult(result.Valid, result.Invalid + 1, result.Errors \o errs)
        ELSE ValidationResult(result.Valid + 1, result.Invalid, result.Errors)

\* the loop of ValidatePapers over ps, with the result so far
RECURSIVE validateLoop(_, _)
validateLoop(ps, result) ==
    IF ps = <<>> THEN result ELSE validateLoop(Tail(ps), validateStep(result, Head(ps)))

\* ValidatePapers
ValidatePapers(ps) == validateLoop(ps, NoValidation)

\* IsValid
IsValid(p) == Len(ValidatePaper(p)) = 0

\* benchmark.Result without its durations
Result(operation, itemCount, validationRes) ==
    [Operation |-> operation, ItemCount |-> itemCount, ValidationRes |-> validationRes]

\* what GenerateReport returns: the report, or nil and the error
Report(nil, rs, summary, e) == [isNil |-> nil, Results |-> rs, Summary |-> summary, err |-> e]

\* benchmark.Summary without its duration
Summary(total, valid, invalid) ==
    [TotalPapers |-> total, ValidPapers |-> valid, InvalidPapers |-> invalid]

\* GenerateReport has not been called
NoReport == Report(TRUE, <<>>, Summary(0, 0, 0), "not called")

\* Runner.GenerateReport with the arxiv Client as provider: BenchmarkFetch,
\* BenchmarkValidation and the summary; what it returns and its fetch
GenerateReport(base, query, limit, pending) ==
    LET f == FetchPapers(base, query, limit, pending)
        ps == f.ret.papers
        fetchResult == Result("Fetch", Len(ps), ValidatePapers(ps))
        valRes == Result("Validation", Len(ps), ValidatePapers(ps))
    IN  [fetch |-> f,
         report |-> IF f.ret.err # "nil"
                    THEN Report(TRUE, <<>>, Summary(0, 0, 0), "fetch benchmark")
                    ELSE Report(FALSE, <<fetchResult, valRes>>,
                                Summary(Len(ps), fetchResult.ValidationRes.Valid,
                                        fetchResult.ValidationRes.Invalid),
                                "nil")]

-----------------------------------------------------------------------------
(* cmd/pipeline: the pipeline command, and internal/api: sync. *)

\* preset.Get for the preset "rag"; every preset recommends MinScore 50 and
\* MaxAgeDays 180
Preset(name) ==
    [Name |-> name, Query |-> <<"r", "e", "t", "r", "i", "e", "v", "a", "l", " ", "a", "u", "g", "m", "e", "n", "t", "e", "d", " ", "g", "e", "n", "e", "r", "a", "t", "i", "o", "n", " ", "R", "A", "G">>,
     MinScore |-> 50, MaxAgeDays |-> 180]

\* the query searched when none is given
defaultQuery == <<"m", "a", "c", "h", "i", "n", "e", " ", "l", "e", "a", "r", "n", "i", "n", "g">>

\* main of cmd/pipeline/main.go: searchQuery, effectiveMinScore and
\* effectiveMaxAge from the flags -preset, -query, -min-score and -max-age
effective(flags) ==
    LET p == Preset(flags.preset)
        query == IF flags.preset # "" THEN p.Query ELSE flags.query
        minScore == IF flags.preset # "" /\ flags.minScore = 0 THEN p.MinScore ELSE flags.minScore
        maxAge == IF flags.preset # "" /\ flags.maxAge = 0 THEN p.MaxAgeDays ELSE flags.maxAge
    IN  [Query |-> IF query = <<>> THEN defaultQuery ELSE query,
         MinScore |-> IF minScore = 0 THEN 60 ELSE minScore,
         MaxAge |-> IF maxAge = 0 THEN 365 ELSE maxAge]

\* the time filter of main: the papers updated after now minus maxAge days
timeFilter(ps, now, maxAge) ==
    IF maxAge > 0
    THEN SelectSeq(ps, LAMBDA p : p.UpdatedAt > now - maxAge)
    ELSE ps

\* the quality filter of main with the papers handed on unfiltered
qualityFilterNone(skipFilter, ps) == ps

\* the quality filter of main: f.FilterPassed(papers) unless -skip-filter
qualityFilter(skipFilter, ps) == IF skipFilter THEN ps ELSE FilterPassed(ps)

\* a run of the command or of sync: its flags or request, the time, how it
\* ended, and the papers after the fetch, the time filter and the quality filter
Run(cmd, flags, maxAge, now, end, fetched, recent, filtered) ==
    [cmd |-> cmd, flags |-> flags, maxAge |-> maxAge, now |-> now, end |-> end,
     fetched |-> fetched, recent |-> recent, filtered |-> filtered]

\* nothing has run
NotRun == Run("none", <<>>, 0, 0, "", <<>>, <<>>, <<>>)

\* main from the fetch on, with the query and the MaxAge in effect: the run,
\* the fetch, and the table and the hand-off afterwards; up says whether
\* NewPool connects and alive whether the database answers the batch
pipeline(cmd, flags, query, maxAge, now, up, alive, base, pending, rows, t) ==
    LET f == FetchPapers(base, query, flags.limit, pending)
        fetched == f.ret.papers
        recent == timeFilter(fetched, now, maxAge)
        filtered == qualityFilter(flags.skipFilter, recent)
        s == SaveBatch(rows, filtered, t, alive)
        out(end, rec, fil, rs, h) ==
            [run |-> Run(cmd, flags, maxAge, now, end, fetched, rec, fil),
             fetch |-> f, rows |-> rs, handed |-> h]
    IN  IF f.ret.err # "nil"
        THEN out("Failed to fetch papers", <<>>, <<>>, rows, NotHanded)
        ELSE IF flags.skipDB
        THEN out("skip-db", recent, filtered, rows, NotHanded)
        ELSE IF ~up
        THEN out("Database connection failed", recent, filtered, rows, NotHanded)
        ELSE IF Len(filtered) > 0
        THEN out(IF s.err = "nil" THEN "saved" ELSE "Failed to save papers",
                 recent, filtered, s.rows, Handed("SaveBatch", filtered, s.err))
        ELSE out("nothing saved", recent, filtered, rows, NotHanded)

\* Handler.handleSync: the run, the fetch, and the table and the hand-off
\* afterwards
handleSync(request, up, base, pending, rows, t) ==
    LET limit == IF request.limit <= 0 \/ request.limit > 100 THEN 20 ELSE request.limit
        query == IF request.query = <<>> THEN defaultQuery ELSE request.query
        f == FetchPapers(base, query, limit, pending)
        fetched == f.ret.papers
        s == SaveBatch(rows, fetched, t, up)
        out(end, fet, rs, h, sent, rest) ==
            [run |-> Run("sync", request, 0, 0, end, fet, fet, fet),
             fetch |-> [ret |-> f.ret, sent |-> sent, pending |-> rest],
             rows |-> rs, handed |-> h]
    IN  IF request.method # "POST"
        THEN [run |-> Run("sync", request, 0, 0, "Method not allowed", <<>>, <<>>, <<>>),
              fetch |-> [ret |-> Return(<<>>, TRUE, "not called"), sent |-> <<>>, pending |-> pending],
              rows |-> rows, handed |-> NotHanded]
        ELSE IF f.ret.err # "nil"
        THEN out("Failed to fetch papers", <<>>, rows, NotHanded, f.sent, f.pending)
        ELSE out(IF s.err = "nil" THEN "Sync completed" ELSE "Failed to save papers",
                 fetched, s.rows, Handed("SaveBatch", fetched, s.err), f.sent, f.pending)

-----------------------------------------------------------------------------
(* The inputs of the model. *)

\* The words an Abstract is joined from, in this order.
AbstractVocab ==
    << <<"e", "v", "a", "l", "u", "a", "t", "i", "o", "n">>, <<"E", "x", "p", "e", "r", "i", "m", "e", "n", "t", "s">>, <<"m", "e", "t", "r", "i", "c">>, <<"a", "b", "l", "a", "t", "i", "o", "n">>, <<"b", "e", "n", "c", "h", "m", "a", "r", "k">>,
       <<"l", "i", "m", "i", "t", "a", "t", "i", "o", "n", "s">>, <<"f", "r", "a", "m", "e", "w", "o", "r", "k">> >>

\* The words of AbstractVocab at the indices in I, in order, joined by spaces.
RECURSIVE joinWords(_, _)
joinWords(I, k) ==
    IF k > Len(AbstractVocab)
    THEN <<>>
    ELSE IF k \in I
         THEN (IF \E j \in I : j < k THEN <<" ">> ELSE <<>>)
              \o AbstractVocab[k] \o joinWords(I, k + 1)
         ELSE joinWords(I, k + 1)

Abstracts ==
    {joinWords(I, 1) : I \in {J \in SUBSET (1..Len(AbstractVocab)) : Cardinality(J) <= MaxWords}}

PdfLink == Link(<<"h", "t", "t", "p", ":", "/", "/", "a", "r", "x", "i", "v", ".", "o", "r", "g", "/", "p", "d", "f", "/", "1">>, "pdf", <<>>)
CodeLink == Link(<<"h", "t", "t", "p", "s", ":", "/", "/", "g", "i", "t", "l", "a", "b", ".", "c", "o", "m", "/", "u", "/", "r">>, "code", <<>>)

\* The Papers handed to evaluate one at a time.
AllPapers ==
    {Paper(ID, Title, Abstract, Comments, ref[1], ref[2], Links) :
        ID \in {<<"2", "3", "0", "1", "v", "1">>, <<"2", "3", "0", "1", "v", "2">>},
        Title \in {<<"T", "e", "s", "t", " ", "P", "a", "p", "e", "r">>, <<"R", "e", "v", "o", "l", "u", "t", "i", "o", "n", "a", "r", "y", " ", "F", "r", "a", "m", "e", "w", "o", "r", "k">>},
        Abstract \in Abstracts,
        Comments \in {<<>>, <<"A", "c", "c", "e", "p", "t", "e", "d", " ", "a", "t", " ", "I", "C", "M", "L">>, <<"C", "o", "d", "e", ":", " ", "h", "t", "t", "p", "s", ":", "/", "/", "g", "i", "t", "h", "u", "b", ".", "c", "o", "m", "/", "u", "/", "r">>},
        ref \in {<< <<>>, <<>> >>, << <<"1", "0", ".", "1", "/", "x">>, <<>> >>, << <<>>, <<"J", ".", " ", "1">> >>},
        Links \in {<<>>, <<PdfLink, CodeLink>>}}

\* Abstracts that name a framework: alone, with a limitation, with one
\* evaluation keyword and with three.
FrameworkAbstracts ==
    {joinWords({Len(AbstractVocab)}, 1),
     joinWords({Len(AbstractVocab) - 1, Len(AbstractVocab)}, 1),
     joinWords({1, Len(AbstractVocab)}, 1),
     joinWords({1, 2, 3, Len(AbstractVocab)}, 1)}

\* The Papers of AllPapers with such an Abstract.
FrameworkPapers == {p \in AllPapers : p.Abstract \in FrameworkAbstracts}

\* The values of Filter.MinScore a framework Paper is filtered with: below
\* zero, zero, the highest Score such a Paper reaches, and the default.
FrameworkMinScores == {-5, 0, 45, DefaultMinScore}

\* TestFilter_FilterPassed's good-paper
GoodPaper ==
    Paper(<<"g", "o", "o", "d", "-", "p", "a", "p", "e", "r">>, <<"G", "o", "o", "d", " ", "P", "a", "p", "e", "r">>,
          <<"E", "x", "p", "e", "r", "i", "m", "e", "n", "t", "s", " ", "a", "n", "d", " ", "e", "v", "a", "l", "u", "a", "t", "i", "o", "n", " ", "o", "n", " ", "b", "e", "n", "c", "h", "m", "a", "r", "k", " ", "d", "a", "t", "a", "s", "e", "t", "s", ".">>,
          <<"A", "c", "c", "e", "p", "t", "e", "d", " ", "a", "t", " ", "I", "C", "M", "L">>, <<>>, <<>>, <<>>)

\* TestFilter_Scoring_Negative's paper
BadPaper ==
    Paper(<<"b", "a", "d", "-", "p", "a", "p", "e", "r">>, <<"B", "a", "d", " ", "P", "a", "p", "e", "r">>, <<"A", " ", "g", "r", "o", "u", "n", "d", "b", "r", "e", "a", "k", "i", "n", "g", " ", "f", "r", "a", "m", "e", "w", "o", "r", "k", ".">>, <<>>, <<>>, <<>>, <<>>)

\* acceptance signal and journal reference, no evaluation keyword
SignalPaper ==
    Paper(<<"2", "3", "0", "1", "v", "3">>, <<"A", " ", "N", "e", "w", " ", "M", "e", "t", "h", "o", "d">>, <<"W", "e", " ", "p", "r", "o", "p", "o", "s", "e", " ", "a", " ", "m", "e", "t", "h", "o", "d", ".">>,
          <<"T", "o", " ", "a", "p", "p", "e", "a", "r", " ", "i", "n", " ", "P", "r", "o", "c", "e", "e", "d", "i", "n", "g", "s">>, <<>>, <<"J", ".", " ", "1">>, <<>>)

\* TestFilter_Scoring's paper: every positive modifier
TopPaper ==
    Paper(<<"2", "3", "0", "1", "v", "2">>, <<"C", "o", "m", "p", "r", "e", "h", "e", "n", "s", "i", "v", "e", " ", "E", "v", "a", "l", "u", "a", "t", "i", "o", "n">>,
          <<"A", "b", "l", "a", "t", "i", "o", "n", " ", "e", "x", "p", "e", "r", "i", "m", "e", "n", "t", "s", " ", "o", "n", " ", "a", " ", "d", "a", "t", "a", "s", "e", "t", " ", "u", "n", "d", "e", "r", " ", "a", "s", "s", "u", "m", "p", "t", "i", "o", "n", "s", ".", " ", "h", "t", "t", "p", "s", ":", "/", "/", "g", "i", "t", "h", "u", "b", ".", "c", "o", "m", "/", "u", "/", "r">>,
          <<"C", "a", "m", "e", "r", "a", "-", "r", "e", "a", "d", "y">>, <<"1", "0", ".", "1", "/", "x">>, <<>>, <<>>)

\* GoodPaper as FilterPassed returned it under an older scoring
RescoredPaper == [GoodPaper EXCEPT !.Score = 77, !.ScoreDetails = <<"+77 old">>]

\* The Papers the sequences handed to the filter are made of.
FilterPool == {GoodPaper, BadPaper, SignalPaper, TopPaper, RescoredPaper}

\* The Papers another caller evaluates in between.
OtherPapers == {BadPaper, SignalPaper}

\* The Papers evaluated side by side.
ConcurrentPool == {GoodPaper, BadPaper, TopPaper}

\* The values of Filter.MinScore: no threshold, the default, the score of
\* GoodPaper and of SignalPaper.
MinScores == {0, DefaultMinScore, 55}

IDAlphabet == {"v", "0", "1", "2", "a"}

\* The identifiers handed to Version.
IDs == SeqsUpTo(IDAlphabet, MaxIDLen)

\* Digit runs at the edge of an int of 64 bits: 2^63 - 1, 2^63, 2^64,
\* 2^64 + 1, 3 * 2^63 and twenty nines.
EdgeDigits ==
    {<<"9", "2", "2", "3", "3", "7", "2", "0", "3", "6", "8", "5", "4", "7", "7", "5", "8", "0", "7">>, <<"9", "2", "2", "3", "3", "7", "2", "0", "3", "6", "8", "5", "4", "7", "7", "5", "8", "0", "8">>, <<"1", "8", "4", "4", "6", "7", "4", "4", "0", "7", "3", "7", "0", "9", "5", "5", "1", "6", "1", "6">>,
     <<"1", "8", "4", "4", "6", "7", "4", "4", "0", "7", "3", "7", "0", "9", "5", "5", "1", "6", "1", "7">>, <<"2", "7", "6", "7", "0", "1", "1", "6", "1", "1", "0", "5", "6", "4", "3", "2", "7", "4", "2", "4">>, <<"9", "9", "9", "9", "9", "9", "9", "9", "9", "9", "9", "9", "9", "9", "9", "9", "9", "9", "9", "9">>}

\* The identifiers handed to Version: the short ones, and a version suffix
\* with a digit run at the edge after nothing, after an earlier suffix and
\* after a digit.
WideIDs ==
    IDs \cup {pre \o <<"v">> \o ds : pre \in {<<>>, <<"v", "3">>, <<"1">>}, ds \in EdgeDigits}

IDFragments == {<<"h", "t", "t", "p", ":", "/", "/", "x", "/", "a", "b", "s", "/">>, <<"c", "s", "/", "1", "v", "2">>, <<"/", "a", "b", "s", "/">>}

\* The raw identifiers of feed entries.
RawIDs == {Concat(f) : f \in SeqsUpTo(IDFragments, MaxIDParts)}

\* A feed entry with the raw identifier rawID.
Entry(rawID) ==
    [ID |-> rawID,
     Title |-> <<" ", " ", "T", "e", "s", "t", "\n", "P", "a", "p", "e", "r", " ", " ">>,
     Summary |-> <<"W", "e", " ", " ", "r", "u", "n", "\n", " ", "e", "x", "p", "e", "r", "i", "m", "e", "n", "t", "s", ".", "\n">>,
     Updated |-> 1,
     Authors |-> <<[Name |-> <<"J", "o", "h", "n", " ", "D", "o", "e">>], [Name |-> <<" ", " ", "J", "a", "n", "e", " ", " ">>], [Name |-> <<>>]>>,
     Categories |-> <<[Term |-> <<"c", "s", ".", "A", "I">>], [Term |-> <<" ">>]>>,
     Links |-> <<AtomLink(<<"h", "t", "t", "p", ":", "/", "/", "a", "r", "x", "i", "v", ".", "o", "r", "g", "/", "a", "b", "s", "/", "1">>, <<"a", "l", "t", "e", "r", "n", "a", "t", "e">>, <<"t", "e", "x", "t", "/", "h", "t", "m", "l">>, <<>>),
                 AtomLink(<<>>, <<"r", "e", "l", "a", "t", "e", "d">>, <<>>, <<>>),
                 AtomLink(<<"h", "t", "t", "p", "s", ":", "/", "/", "g", "i", "t", "h", "u", "b", ".", "c", "o", "m", "/", "u", "/", "r">>, <<"r", "e", "l", "a", "t", "e", "d">>, <<>>, <<"c", "o", "d", "e">>)>>,
     Comment |-> <<" ", "A", "c", "c", "e", "p", "t", "e", "d", " ", "a", "t", " ", " ", "I", "C", "M", "L">>,
     DOI |-> <<" ", "1", "0", ".", "1", "/", "x", " ">>,
     JournalRef |-> <<>>]

RawEntries == {Entry(r) : r \in RawIDs}

TextAlphabet == {" ", "\n", "\t", "a"}

\* The raw texts of a feed entry: any short text, bare or between two letters.
Texts ==
    LET short == SeqsUpTo(TextAlphabet, MaxTextLen)
    IN  short \cup {<<"a">> \o t \o <<"a">> : t \in short}

\* The feed entry the entries below vary.
BaseEntry == Entry(<<"h", "t", "t", "p", ":", "/", "/", "x", "/", "a", "b", "s", "/", "1", "v", "2">>)

\* Feed entries with some raw text as title, summary or comment.
TextEntries ==
    {[BaseEntry EXCEPT !.Title = t] : t \in Texts}
        \cup {[BaseEntry EXCEPT !.Summary = t] : t \in Texts}
        \cup {[BaseEntry EXCEPT !.Comment = t] : t \in Texts}

\* The raw names of author elements and terms of category elements.
RawNames == {<<>>, <<" ">>, <<"A">>, <<" ", "A", " ">>, <<"B", " ", "C", "\t">>}

RawNameLists == SeqsUpTo(RawNames, MaxAuthors)

\* Feed entries with some author elements and some category elements.
PeopleEntries ==
    {[BaseEntry EXCEPT !.Authors = [k \in 1..Len(ns) |-> [Name |-> ns[k]]],
                       !.Categories = [k \in 1..Len(ts) |-> [Term |-> ts[k]]]] :
        ns \in RawNameLists, ts \in {<<>>, <<<<"B", " ", "C", "\t">>, <<>>, <<"B", " ", "C", "\t">>>>}}
        \cup {[BaseEntry EXCEPT !.Categories = [k \in 1..Len(ts) |-> [Term |-> ts[k]]]] :
                  ts \in RawNameLists}

\* The URLs of link elements: none, a PDF file, a plain page, a repository,
\* and a repository under the www host name.
RawHrefs == {<<>>, <<"h", "t", "t", "p", ":", "/", "/", "a", "/", "1", ".", "p", "d", "f">>, <<"h", "t", "t", "p", ":", "/", "/", "a", "/", "1">>, <<"h", "t", "t", "p", "s", ":", "/", "/", "g", "i", "t", "l", "a", "b", ".", "c", "o", "m", "/", "u", "/", "r">>, <<"h", "t", "t", "p", "s", ":", "/", "/", "w", "w", "w", ".", "g", "i", "t", "h", "u", "b", ".", "c", "o", "m", "/", "u">>}

\* The link elements of a feed entry; links with rel "related" carry a title.
RawLinks ==
    {AtomLink(h, r, ty, IF r = <<"r", "e", "l", "a", "t", "e", "d">> THEN <<"t">> ELSE <<>>) :
        h \in RawHrefs, r \in {<<"a", "l", "t", "e", "r", "n", "a", "t", "e">>, <<"r", "e", "l", "a", "t", "e", "d">>}, ty \in {<<>>, <<"a", "p", "p", "l", "i", "c", "a", "t", "i", "o", "n", "/", "p", "d", "f">>}}

\* Feed entries with some link elements.
LinkEntries == {[BaseEntry EXCEPT !.Links = ls] : ls \in SeqsUpTo(RawLinks, MaxLinks)}

\* Texts that name a repository with and without the scheme, and with nothing
\* after the host.
CodeTexts == {<<"a", "t", " ", "h", "t", "t", "p", "s", ":", "/", "/", "g", "i", "t", "h", "u", "b", ".", "c", "o", "m", "/", "u">>, <<"a", "t", " ", "g", "i", "t", "h", "u", "b", ".", "c", "o", "m", "/", "u">>, <<"a", "t", " ", "h", "t", "t", "p", ":", "/", "/", "g", "i", "t", "l", "a", "b", ".", "c", "o", "m", "/", " ", "x">>}

\* Feed entries without links that name a repository in the summary or in the
\* comment.
CodeTextEntries ==
    {[BaseEntry EXCEPT !.Links = <<>>, !.Summary = t] : t \in CodeTexts}
        \cup {[BaseEntry EXCEPT !.Links = <<>>, !.Comment = t] : t \in CodeTexts}

\* The feed entries whose Papers are scored for their code link.
CodeEntries == LinkEntries \cup CodeTextEntries

\* The feed entries of a feed with one entry.
FeedEntries == TextEntries \cup PeopleEntries \cup LinkEntries

\* The base URLs of a Client: the default one and one without a scheme.
BaseURLs == {defaultBaseURL, <<":", "8", "0", "/", "a", "p", "i">>}

\* The query and the limits FetchPapers is called with.
Query == <<"l", "l", "m">>

Limits == {0, 5}

\* The bodies of a response: a feed cut off inside its entry, a well-formed
\* page that is not a feed, and feeds with no, one and two entries.
Bodies ==
    {[wellFormed |-> FALSE, root |-> "feed", entries |-> <<BaseEntry>>],
     [wellFormed |-> TRUE, root |-> "html", entries |-> <<>>],
     [wellFormed |-> TRUE, root |-> "feed", entries |-> <<>>],
     [wellFormed |-> TRUE, root |-> "feed", entries |-> <<BaseEntry>>],
     [wellFormed |-> TRUE, root |-> "feed", entries |-> <<Entry(<<"c", "s", "/", "1", "v", "2">>), BaseEntry>>]}

\* The answers to a GET: a transport failure, or a response with a status
\* and a body.
Replies ==
    {[transport |-> TRUE, status |-> 0, body |-> [wellFormed |-> FALSE, root |-> "", entries |-> <<>>]]}
        \cup {[transport |-> FALSE, status |-> s, body |-> b] : s \in {StatusOK, 503}, b \in Bodies}

\* The Papers direct callers save: two states of the Paper "a", a Paper "b"
\* and a Paper whose ID has 51 characters.
StorePapers ==
    LET a == Paper(<<"a">>, <<"T", "1">>, <<"x">>, <<>>, <<>>, <<>>, <<>>)
    IN  {a,
         [a EXCEPT !.Title = <<"T", "2">>, !.Authors = <<<<"A">>>>, !.UpdatedAt = 2],
         [a EXCEPT !.ID = <<"b">>],
         [a EXCEPT !.ID = [k \in 1..(MaxIDColumn + 1) |-> "9"]]}

\* The batches handed to SaveBatchWithStats.
StatsBatches == SeqsUpTo(StorePapers, MaxBatch)

\* The counts handed to CompleteSync: fetched, new and updated.
SyncCounts == {<<0, 0, 0>>, <<5, 3, 2>>}

\* The time of a run, in days.
Nows == {400}

\* A feed entry that passes both levels, with some identifier and some day of
\* its last update.
GoodEntry(rawID, updated) ==
    [BaseEntry EXCEPT !.ID = rawID, !.Summary = <<"E", "x", "p", "e", "r", "i", "m", "e", "n", "t", "s", " ", "o", "n", " ", "a", " ", "b", "e", "n", "c", "h", "m", "a", "r", "k", ".">>,
                      !.Updated = updated]

\* The entries of the feeds the command and sync fetch: passing entries
\* updated 365 and 100 days before the run, and an entry updated 10 days
\* before the run that fails Level 1.
PipelineEntries ==
    {GoodEntry(<<"h", "t", "t", "p", ":", "/", "/", "x", "/", "a", "b", "s", "/", "1", "v", "2">>, 35),
     GoodEntry(<<"h", "t", "t", "p", ":", "/", "/", "x", "/", "a", "b", "s", "/", "2", "v", "1">>, 300),
     [BaseEntry EXCEPT !.ID = <<"h", "t", "t", "p", ":", "/", "/", "x", "/", "a", "b", "s", "/", "4", "v", "1">>, !.Updated = 390]}

\* The answers of the feed server to a run: a transport failure or a feed.
PipelineReplies ==
    {[transport |-> TRUE, status |-> 0, body |-> [wellFormed |-> FALSE, root |-> "", entries |-> <<>>]]}
        \cup {[transport |-> FALSE, status |-> StatusOK,
               body |-> [wellFormed |-> TRUE, root |-> "feed", entries |-> es]] :
                  es \in SeqsUpTo(PipelineEntries, MaxEntries)}

\* The flags of cmd/pipeline/main.go: -min-score is left at 0.
PresetFlags ==
    [preset : {"", "rag"}, query : {<<>>}, limit : {50}, minScore : {0}, maxAge : {0, 30},
     skipDB : BOOLEAN, skipFilter : BOOLEAN]

\* The flags of the command that reads its defaults from the configuration.
ConfigFlags ==
    [query : {<<>>}, limit : {10}, minScore : {50, 60}, maxAge : {0, 30, 365},
     skipDB : BOOLEAN, skipFilter : BOOLEAN]

\* The requests to /api/sync.
SyncRequests == [method : {"POST", "GET"}, query : {<<>>}, limit : {0}]

\* The Papers handed to validation: a valid one, one with a blank ID, one
\* with a blank Title, one without Authors, one with the zero time, and one
\* with every field at its zero value.
ValidationPapers ==
    LET v == [Paper(<<"1">>, <<"V", "a", "l", "i", "d">>, <<>>, <<>>, <<>>, <<>>, <<>>)
                 EXCEPT !.Authors = <<<<"A">>>>, !.UpdatedAt = 5]
    IN  {v,
         [v EXCEPT !.ID = <<" ", "\t">>],
         [v EXCEPT !.Title = <<" ">>],
         [v EXCEPT !.Authors = <<>>],
         [v EXCEPT !.UpdatedAt = 0],
         Paper(<<>>, <<>>, <<>>, <<>>, <<>>, <<>>, <<>>)}

\* The answers of the feed server to the benchmark: a transport failure, a
\* feed without entries, and a feed with a valid entry, an entry without a
\* title and a time, and an entry whose authors have blank names.
BenchmarkReplies ==
    {[transport |-> TRUE, status |-> 0, body |-> [wellFormed |-> FALSE, root |-> "", entries |-> <<>>]],
     [transport |-> FALSE, status |-> StatusOK,
      body |-> [wellFormed |-> TRUE, root |-> "feed", entries |-> <<>>]],
     [transport |-> FALSE, status |-> StatusOK,
      body |-> [wellFormed |-> TRUE, root |-> "feed",
                entries |-> <<BaseEntry,
                              [BaseEntry EXCEPT !.Title = <<" ", "\n">>, !.Updated = 0],
                              [BaseEntry EXCEPT !.Authors = <<[Name |-> <<" ">>]>>]>>]]}

\* the flags -query and -limit of cmd/benchmark at their defaults
BenchmarkFlags == [query |-> defaultQuery, limit |-> 50]

-----------------------------------------------------------------------------
(* The state machine. *)

\* the package variables of internal/filter after initialisation
InitTables ==
    /\ evaluationKeywords = EvaluationKeywords
    /\ hypeKeywords = HypeKeywords
    /\ frameworkKeywords = FrameworkKeywords
    /\ limitationKeywords = LimitationKeywords

\* nothing has been called yet
InitCalls ==
    /\ results = <<>>
    /\ passed = <<>>
    /\ scratch = <<>>
    /\ version = 0
    /\ done = {}
    /\ gets = <<>>
    /\ ret = Return(<<>>, TRUE, "not called")
    /\ store = {}
    /\ handed = NotHanded
    /\ clock = 0
    /\ run = NotRun
    /\ valResult = NoValidation
    /\ verdicts = <<>>
    /\ report = NoReport
    /\ syncLog = <<>>
    /\ syncRet = NoSyncRet
    /\ requests = <<>>

\* nothing has been called yet, and no evaluation and no call of cleanText
\* or of SaveBatchWithStats is in progress
InitIdle ==
    /\ InitCalls
    /\ workers = <<>>
    /\ cleaning = NotCleaning
    /\ server = NoServer
    /\ callers = <<>>

\* no Client is in use
InitOffline ==
    /\ baseURL = defaultBaseURL
    /\ replies = <<>>

\* NewClientWithOptions with some base URL, and a server with some answers.
InitFetch ==
    /\ InitTables
    /\ InitIdle
    /\ MinScore = DefaultMinScore
    /\ feed = <<>>
    /\ papers = <<>>
    /\ id = <<>>
    /\ baseURL \in BaseURLs
    /\ replies \in SeqsUpTo(Replies, MaxReplies)

\* A filter with some MinScore and a caller holding some sequence of Papers.
Init ==
    /\ InitTables
    /\ InitIdle
    /\ InitOffline
    /\ MinScore \in MinScores
    /\ feed = <<>>
    /\ papers \in SeqsUpTo(FilterPool, MaxPapers)
    /\ id = <<>>

\* NewFilter() and a caller holding one Paper.
InitEval ==
    /\ InitTables
    /\ InitIdle
    /\ InitOffline
    /\ MinScore = DefaultMinScore
    /\ feed = <<>>
    /\ papers \in {<<p>> : p \in AllPapers}
    /\ id = <<>>

\* A Paper with some identifier.
InitVersion ==
    /\ InitTables
    /\ InitIdle
    /\ InitOffline
    /\ MinScore = DefaultMinScore
    /\ feed = <<>>
    /\ papers = <<>>
    /\ id \in IDs

\* A decoded feed.
InitNormalize ==
    /\ InitTables
    /\ InitIdle
    /\ InitOffline
    /\ MinScore = DefaultMinScore
    /\ feed \in SeqsUpTo(RawEntries, MaxEntries)
    /\ papers = <<>>
    /\ id = <<>>

\* A decoded feed with one entry.
InitFeed ==
    /\ InitTables
    /\ InitIdle
    /\ InitOffline
    /\ MinScore = DefaultMinScore
    /\ feed \in {<<e>> : e \in FeedEntries}
    /\ papers = <<>>
    /\ id = <<>>

\* A decoded feed with one entry, and NewFilter().
InitCode ==
    /\ InitTables
    /\ InitIdle
    /\ InitOffline
    /\ MinScore = DefaultMinScore
    /\ feed \in {<<e>> : e \in CodeEntries}
    /\ papers = <<>>
    /\ id = <<>>

\* A migrated database with an empty table.
InitStore ==
    /\ InitTables
    /\ InitIdle
    /\ InitOffline
    /\ MinScore = DefaultMinScore
    /\ feed = <<>>
    /\ papers = <<>>
    /\ id = <<>>

\* A migrated database with an empty table, NewClient(), a feed server with
\* one answer, and the MinScore of the filter of the run.
InitPipeline ==
    /\ InitTables
    /\ InitIdle
    /\ MinScore \in {50, DefaultMinScore}
    /\ feed = <<>>
    /\ papers = <<>>
    /\ id = <<>>
    /\ baseURL = defaultBaseURL
    /\ replies \in {<<r>> : r \in PipelineReplies}

\* A filter with some MinScore, a caller holding some sequence of Papers, and
\* an evaluation started for each of them.
InitConcurrent ==
    /\ InitTables
    /\ InitCalls
    /\ InitOffline
    /\ MinScore \in MinScores
    /\ feed = <<>>
    /\ papers \in SeqsUpTo(ConcurrentPool, MaxPapers)
    /\ id = <<>>
    /\ workers = [k \in 1..Len(papers) |-> NewWorker]
    /\ cleaning = NotCleaning
    /\ server = NoServer
    /\ callers = <<>>

\* A caller holding some sequence of Papers, NewClient() and a feed server
\* with one answer.
InitValidate ==
    /\ InitTables
    /\ InitIdle
    /\ MinScore = DefaultMinScore
    /\ feed = <<>>
    /\ papers \in SeqsUpTo(ValidationPapers, MaxPapers)
    /\ id = <<>>
    /\ baseURL = defaultBaseURL
    /\ replies \in {<<r>> : r \in BenchmarkReplies}

\* A filter with some MinScore and a caller holding one Paper whose Abstract
\* names a framework.
InitFramework ==
    /\ InitTables
    /\ InitIdle
    /\ InitOffline
    /\ MinScore \in FrameworkMinScores
    /\ feed = <<>>
    /\ papers \in {<<p>> : p \in FrameworkPapers}
    /\ id = <<>>

\* A Paper with some identifier, short or with a long digit run.
InitVersion64 ==
    /\ InitTables
    /\ InitIdle
    /\ InitOffline
    /\ MinScore = DefaultMinScore
    /\ feed = <<>>
    /\ papers = <<>>
    /\ id \in WideIDs

\* A caller about to call cleanText on some raw text.
InitClean ==
    /\ InitTables
    /\ InitCalls
    /\ InitOffline
    /\ MinScore = DefaultMinScore
    /\ feed = <<>>
    /\ papers = <<>>
    /\ id = <<>>
    /\ workers = <<>>
    /\ callers = <<>>
    /\ \E raw \in Texts : cleaning = Cleaning(<<raw>>, "call", raw, <<>>)
    /\ server = NoServer

\* A migrated database with an empty table and two callers that have called
\* SaveBatchWithStats.
InitStats ==
    /\ InitTables
    /\ InitCalls
    /\ workers = <<>>
    /\ cleaning = NotCleaning
    /\ server = NoServer
    /\ InitOffline
    /\ MinScore = DefaultMinScore
    /\ feed = <<>>
    /\ papers = <<>>
    /\ id = <<>>
    /\ \E b1 \in StatsBatches, b2 \in StatsBatches :
          callers = <<NewStatsCall(b1), NewStatsCall(b2)>>

\* A migrated database with an empty table sync_log.
InitSync ==
    /\ InitTables
    /\ InitIdle
    /\ InitOffline
    /\ MinScore = DefaultMinScore
    /\ feed = <<>>
    /\ papers = <<>>
    /\ id = <<>>

\* The API server listens and no request has arrived.
InitServer ==
    /\ InitTables
    /\ InitCalls
    /\ workers = <<>>
    /\ cleaning = NotCleaning
    /\ callers = <<>>
    /\ server = NewServer
    /\ InitOffline
    /\ MinScore = DefaultMinScore
    /\ feed = <<>>
    /\ papers = <<>>
    /\ id = <<>>

\* results := f.Apply(papers)
DoApply ==
    /\ results' = Apply(papers)
    /\ done' = done \cup {"Apply"}
    /\ UNCHANGED <<tables, MinScore, feed, papers, passed, scratch, id, version, io, workers,
                   valResult, verdicts, report, cleaning, callers, syncLog, syncRet, server,
                   requests>>

\* DoFilterPassed ranging over the slice by index, so that Score and
\* ScoreDetails are written to the caller's Papers
DoFilterPassedInPlace ==
    /\ passed' = FilterPassed(papers)
    /\ papers' = [k \in 1..Len(papers) |->
                     LET result == evaluate(papers[k])
                     IN  IF result.PassedLevel1 /\ result.Score >= MinScore
                         THEN [papers[k] EXCEPT !.Score = result.Score,
                                                !.ScoreDetails = result.Details]
                         ELSE papers[k]]
    /\ done' = done \cup {"FilterPassed"}
    /\ UNCHANGED <<tables, MinScore, feed, results, scratch, id, version, io, workers, valResult,
                   verdicts, report, cleaning, callers, syncLog, syncRet, server, requests>>

\* passed := f.FilterPassed(papers)
DoFilterPassed ==
    /\ passed' = FilterPassed(papers)
    /\ done' = done \cup {"FilterPassed"}
    /\ UNCHANGED <<tables, MinScore, feed, papers, results, scratch, id, version, io, workers,
                   valResult, verdicts, report, cleaning, callers, syncLog, syncRet, server,
                   requests>>

\* DoEvaluate with evaluate keeping the keywords it matched in the package
\* variable (countKeywords filtering the shared slice in place)
DoEvaluateInPlace ==
    \E p \in OtherPapers :
        /\ scratch' = <<evaluate(p)>>
        /\ evaluationKeywords' =
              SelectSeq(evaluationKeywords, LAMBDA kw : Contains(ToLower(p.Abstract), kw))
        /\ UNCHANGED <<hypeKeywords, frameworkKeywords, limitationKeywords, MinScore, feed,
                       papers, results, passed, id, version, done, io, workers, valResult,
                       verdicts, report, cleaning, callers, syncLog, syncRet, server, requests>>

\* another caller has some other Paper evaluated
DoEvaluate ==
    \E p \in OtherPapers :
        /\ scratch' = <<evaluate(p)>>
        /\ UNCHANGED <<tables, MinScore, feed, papers, results, passed, id, version, done, io,
                       workers, valResult, verdicts, report, cleaning, callers, syncLog, syncRet,
                       server, requests>>

\* version := Paper{ID: id}.Version()
DoVersion ==
    /\ version' = Version(id)
    /\ done' = done \cup {"Version"}
    /\ UNCHANGED <<tables, MinScore, feed, papers, results, passed, scratch, id, io, workers,
                   valResult, verdicts, report, cleaning, callers, syncLog, syncRet, server,
                   requests>>

\* version := Paper{ID: id}.Version() with the width of int
DoVersion64 ==
    /\ version' = Version64(id)
    /\ done' = done \cup {"Version"}
    /\ UNCHANGED <<tables, MinScore, feed, papers, results, passed, scratch, id, io, workers,
                   valResult, verdicts, report, cleaning, callers, syncLog, syncRet, server,
                   requests>>

\* papers := c.convertEntries(feed)
DoConvertEntries ==
    /\ papers' = convertEntries(feed)
    /\ done' = done \cup {"convertEntries"}
    /\ UNCHANGED <<tables, MinScore, feed, results, passed, scratch, id, version, io, workers,
                   valResult, verdicts, report, cleaning, callers, syncLog, syncRet, server,
                   requests>>

\* ret := c.FetchPapers(query, limit), with the answer of the server if asked
DoFetchPapers ==
    /\ replies # <<>>
    /\ \E limit \in Limits :
          LET r == FetchPapers(baseURL, Query, limit, replies)
          IN  /\ ret' = r.ret
              /\ gets' = gets \o r.sent
              /\ replies' = r.pending
    /\ done' = done \cup {"FetchPapers"}
    /\ UNCHANGED <<tables, MinScore, feed, papers, results, passed, scratch, id, version, baseURL,
                   store, handed, clock, run, workers, valResult, verdicts, report, cleaning,
                   callers, syncLog, syncRet, server, requests>>

\* err := repo.Save(ctx, paper)
DoSave ==
    /\ clock < MaxSaves
    /\ \E paper \in StorePapers, up \in BOOLEAN :
          LET r == Save(store, paper, clock + 1, up)
          IN  /\ store' = r.rows
              /\ handed' = Handed("Save", <<paper>>, r.err)
    /\ clock' = clock + 1
    /\ UNCHANGED <<tables, MinScore, feed, papers, results, passed, scratch, id, version, done,
                   baseURL, replies, gets, ret, run, workers, valResult, verdicts, report,
                   cleaning, callers, syncLog, syncRet, server, requests>>

\* err := repo.SaveBatch(ctx, papers)
DoSaveBatch ==
    /\ clock < MaxSaves
    /\ \E ps \in SeqsUpTo(StorePapers, MaxBatch), up \in BOOLEAN :
          LET r == SaveBatch(store, ps, clock + 1, up)
          IN  /\ store' = r.rows
              /\ handed' = Handed("SaveBatch", ps, r.err)
    /\ clock' = clock + 1
    /\ UNCHANGED <<tables, MinScore, feed, papers, results, passed, scratch, id, version, done,
                   baseURL, replies, gets, ret, run, workers, valResult, verdicts, report,
                   cleaning, callers, syncLog, syncRet, server, requests>>

\* what a run leaves behind: the run, the fetch, the table and the hand-off;
\* the database ticks when it was handed a batch
afterRun(r) ==
    /\ run' = r.run
    /\ ret' = r.fetch.ret
    /\ gets' = gets \o r.fetch.sent
    /\ replies' = r.fetch.pending
    /\ store' = r.rows
    /\ handed' = r.handed
    /\ clock' = IF r.handed = NotHanded THEN clock ELSE clock + 1
    /\ UNCHANGED <<tables, MinScore, feed, papers, results, passed, scratch, id, version, done,
                   baseURL, workers, valResult, verdicts, report, cleaning, callers, syncLog,
                   syncRet, server, requests>>

\* a run of main of cmd/pipeline/main.go with f.MinScore = effectiveMinScore
DoPipeline ==
    /\ replies # <<>>
    /\ \E flags \in PresetFlags, now \in Nows, up \in BOOLEAN, alive \in BOOLEAN :
          /\ effective(flags).MinScore = MinScore
          /\ \E r \in {pipeline("pipeline", flags, effective(flags).Query, effective(flags).MaxAge,
                                now, up, alive, baseURL, replies, store, clock + 1)} :
                afterRun(r)

\* a run of main that takes its defaults from the configuration, with
\* f.MinScore = *minScore and the time filter on *maxAgeDays
DoPipelineConfig ==
    /\ replies # <<>>
    /\ \E flags \in ConfigFlags, now \in Nows, up \in BOOLEAN, alive \in BOOLEAN :
          /\ flags.minScore = MinScore
          /\ \E r \in {pipeline("pipeline-config", flags,
                                IF flags.query = <<>> THEN defaultQuery ELSE flags.query,
                                flags.maxAge, now, up, alive, baseURL, replies, store, clock + 1)} :
                afterRun(r)

\* POST /api/sync
DoSync ==
    /\ replies # <<>>
    /\ \E request \in SyncRequests, up \in BOOLEAN :
          \E r \in {handleSync(request, up, baseURL, replies, store, clock + 1)} :
              afterRun(r)

\* what a step of the k-th evaluation leaves alone
workerFrame ==
    UNCHANGED <<MinScore, feed, papers, results, passed, scratch, id, version, done, io,
                valResult, verdicts, report, cleaning, callers, syncLog, syncRet, server, requests>>

\* DoCount with countKeywords keeping the keywords it matched in the package
\* variable
DoCountInPlace(k) ==
    /\ workers[k].pc = "count"
    /\ workers' = [workers EXCEPT ![k] = stepCount(workers[k], papers[k])]
    /\ evaluationKeywords' =
          SelectSeq(evaluationKeywords, LAMBDA kw : Contains(ToLower(papers[k].Abstract), kw))
    /\ UNCHANGED <<hypeKeywords, frameworkKeywords, limitationKeywords>>
    /\ workerFrame

\* the k-th evaluation runs up to the code link
DoCount(k) ==
    /\ workers[k].pc = "count"
    /\ workers' = [workers EXCEPT ![k] = stepCount(workers[k], papers[k])]
    /\ UNCHANGED tables
    /\ workerFrame

\* the k-th evaluation runs on to the version
DoLimitation(k) ==
    /\ workers[k].pc = "limitation"
    /\ workers' = [workers EXCEPT ![k] = stepLimitation(workers[k], papers[k])]
    /\ UNCHANGED tables
    /\ workerFrame

\* the k-th evaluation looks for hype
DoHype(k) ==
    /\ workers[k].pc = "hype"
    /\ workers' = [workers EXCEPT ![k] = stepHype(workers[k], papers[k])]
    /\ UNCHANGED tables
    /\ workerFrame

\* the k-th evaluation runs to its return
DoFramework(k) ==
    /\ workers[k].pc = "framework"
    /\ workers' = [workers EXCEPT ![k] = stepFramework(workers[k], papers[k])]
    /\ UNCHANGED tables
    /\ workerFrame

\* every evaluation has returned: the results are recollected in the order of
\* the Papers and the passing Papers picked from them
DoCollect ==
    /\ "collect" \notin done
    /\ \A k \in 1..Len(workers) : workers[k].pc = "done"
    /\ results' = [k \in 1..Len(workers) |-> workerResult(workers[k], papers[k])]
    /\ passed' = collectPassed(results')
    /\ done' = done \cup {"collect"}
    /\ UNCHANGED <<tables, MinScore, feed, papers, scratch, id, version, io, workers, valResult,
                   verdicts, report, cleaning, callers, syncLog, syncRet, server, requests>>

\* valResult := validation.ValidatePapers(papers)
DoValidatePapers ==
    /\ valResult' = ValidatePapers(papers)
    /\ done' = done \cup {"ValidatePapers"}
    /\ UNCHANGED <<tables, MinScore, feed, papers, results, passed, scratch, id, version, io,
                   workers, verdicts, report, cleaning, callers, syncLog, syncRet, server,
                   requests>>

\* verdicts[k] := validation.IsValid(papers[k]) for each Paper
DoIsValid ==
    /\ verdicts' = [k \in 1..Len(papers) |-> IsValid(papers[k])]
    /\ done' = done \cup {"IsValid"}
    /\ UNCHANGED <<tables, MinScore, feed, papers, results, passed, scratch, id, version, io,
                   workers, valResult, report, cleaning, callers, syncLog, syncRet, server,
                   requests>>

\* report, err := runner.GenerateReport(ctx, *query, *limit) of cmd/benchmark
DoGenerateReport ==
    /\ replies # <<>>
    /\ \E r \in {GenerateReport(baseURL, BenchmarkFlags.query, BenchmarkFlags.limit, replies)} :
          /\ report' = r.report
          /\ ret' = r.fetch.ret
          /\ gets' = gets \o r.fetch.sent
          /\ replies' = r.fetch.pending
    /\ done' = done \cup {"GenerateReport"}
    /\ UNCHANGED <<tables, MinScore, feed, papers, results, passed, scratch, id, version, baseURL,
                   store, handed, clock, run, workers, valResult, verdicts, cleaning, callers,
                   syncLog, syncRet, server, requests>>

\* what a step of cleanText leaves alone
cleanFrame ==
    UNCHANGED <<tables, MinScore, feed, papers, results, passed, scratch, id, version, done, io,
                workers, valResult, verdicts, report, callers, syncLog, syncRet, server, requests>>

\* cleanText trims s and replaces its newlines
DoCleanStart ==
    /\ cleaning.pc = "call"
    /\ cleaning' = [cleaning EXCEPT !.pc = "loop", !.s = cleanStart(cleaning.s)]
    /\ cleanFrame

\* one pass of the loop of cleanText
DoCleanPass ==
    /\ cleaning.pc = "loop"
    /\ cleanLoops(cleaning.s)
    /\ cleaning' = [cleaning EXCEPT !.s = cleanPass(cleaning.s)]
    /\ cleanFrame

\* cleanText leaves its loop and returns s
DoCleanReturn ==
    /\ cleaning.pc = "loop"
    /\ ~cleanLoops(cleaning.s)
    /\ cleaning' = [cleaning EXCEPT !.pc = "returned", !.outs = Append(cleaning.outs, cleaning.s)]
    /\ cleanFrame

\* the caller calls cleanText on what the first call returned
DoCleanAgain ==
    /\ cleaning.pc = "returned"
    /\ Len(cleaning.outs) = 1
    /\ cleaning' = [cleaning EXCEPT !.pc = "call", !.s = cleaning.outs[1],
                                    !.args = Append(cleaning.args, cleaning.outs[1])]
    /\ cleanFrame

\* what a statement of SaveBatchWithStats leaves alone
statsFrame ==
    UNCHANGED <<tables, MinScore, feed, papers, results, passed, scratch, id, version, done,
                baseURL, replies, gets, ret, handed, run, workers, valResult, verdicts, report,
                cleaning, syncLog, syncRet, server, requests>>

\* the c-th call asks whether its Paper exists
DoStatsExists(c) ==
    /\ callers[c].pc = "exists"
    /\ \E up \in BOOLEAN :
          callers' = [callers EXCEPT ![c] = statsExists(callers[c], store, up)]
    /\ UNCHANGED <<store, clock>>
    /\ statsFrame

\* the c-th call saves its Paper and counts it
DoStatsSave(c) ==
    /\ callers[c].pc = "save"
    /\ \E up \in BOOLEAN :
          \E r \in {statsSave(callers[c], store, clock + 1, up)} :
              /\ callers' = [callers EXCEPT ![c] = r.call]
              /\ store' = r.rows
    /\ clock' = clock + 1
    /\ statsFrame

\* what a call of a SyncRepository method leaves, with the time of the
\* database one tick on
afterSync(r) ==
    /\ syncLog' = r.log
    /\ syncRet' = r.ret
    /\ clock' = clock + 1
    /\ UNCHANGED <<tables, MinScore, feed, papers, results, passed, scratch, id, version, done,
                   baseURL, replies, gets, ret, store, handed, run, workers, valResult, verdicts,
                   report, cleaning, callers, server, requests>>

\* id, err := syncRepo.StartSync(ctx, query)
DoStartSync ==
    /\ clock < MaxSyncCalls
    /\ \E up \in BOOLEAN : afterSync(StartSync(syncLog, defaultQuery, clock + 1, up))

\* err := syncRepo.CompleteSync(ctx, id, fetched, newCount, updated), with
\* an id StartSync has returned or the next one
DoCompleteSync ==
    /\ clock < MaxSyncCalls
    /\ \E i \in 1..(Len(syncLog) + 1), n \in SyncCounts, up \in BOOLEAN :
          afterSync(CompleteSync(syncLog, i, n[1], n[2], n[3], clock + 1, up))

\* err := syncRepo.FailSync(ctx, id, errMsg)
DoFailSync ==
    /\ clock < MaxSyncCalls
    /\ \E i \in 1..(Len(syncLog) + 1), up \in BOOLEAN :
          afterSync(FailSync(syncLog, i, clock + 1, up))

\* log, err := syncRepo.GetLatestSync(ctx)
DoGetLatestSync ==
    /\ clock < MaxSyncCalls
    /\ \E up \in BOOLEAN : afterSync(GetLatestSync(syncLog, up))

\* what a step of the API server leaves alone
serverFrame ==
    UNCHANGED <<tables, MinScore, feed, papers, results, passed, scratch, id, version, done,
                baseURL, replies, gets, ret, store, handed, clock, run, workers, valResult,
                verdicts, report, cleaning, callers, syncLog, syncRet>>

\* server.ListenAndServe() fails to bind: log.Fatalf ends the process, and
\* the deferred pool.Close() does not run
DoListenFail ==
    /\ server.main = "serve"
    /\ ~server.inShutdown
    /\ requests = <<>>
    /\ server' = [server EXCEPT !.main = "exited", !.shutdown = "killed"]
    /\ UNCHANGED requests
    /\ serverFrame

\* the server accepts a request and starts its handler in a goroutine
DoAccept ==
    /\ server.main = "serve"
    /\ ~server.inShutdown
    /\ Len(requests) < MaxRequests
    /\ \E route \in PoolRoutes : requests' = Append(requests, Request(route, "running", "none"))
    /\ UNCHANGED server
    /\ serverFrame

\* the handler calls the repository, which asks the pool for a connection:
\* a closed pool answers with an error and the handler responds with it
DoHandlerAcquire(k) ==
    /\ server.main # "exited"
    /\ requests[k].pc = "running"
    /\ requests' = [requests EXCEPT ![k] =
                       IF server.poolClosed
                       THEN Request(requests[k].route, "done", "closed")
                       ELSE Request(requests[k].route, "query", "none")]
    /\ UNCHANGED server
    /\ serverFrame

\* the query ends, the connection goes back to the pool, the handler responds
DoHandlerRelease(k) ==
    /\ server.main # "exited"
    /\ requests[k].pc = "query"
    /\ requests' = [requests EXCEPT ![k] = Request(requests[k].route, "done", "ok")]
    /\ UNCHANGED server
    /\ serverFrame

\* SIGINT or SIGTERM arrives on sigChan
DoSignal ==
    /\ server.main # "exited"
    /\ ~server.signalled
    /\ server' = [server EXCEPT !.signalled = TRUE]
    /\ UNCHANGED requests
    /\ serverFrame

\* <-sigChan; server.Shutdown(ctx) closes the listener and starts to wait for
\* the connections to become idle
DoShutdownCall ==
    /\ server.main # "exited"
    /\ server.shutdown = "wait"
    /\ server.signalled
    /\ server' = [server EXCEPT !.shutdown = "shutdown", !.inShutdown = TRUE]
    /\ UNCHANGED requests
    /\ serverFrame

\* server.Shutdown(ctx) returns: no request is in flight, or the ten seconds
\* of ctx are over
DoShutdownReturn ==
    /\ server.main # "exited"
    /\ server.shutdown = "shutdown"
    /\ \E timedOut \in BOOLEAN :
          timedOut \/ \A k \in 1..Len(requests) : ~inFlight(requests[k])
    /\ server' = [server EXCEPT !.shutdown = "returned"]
    /\ UNCHANGED requests
    /\ serverFrame

\* server.ListenAndServe() returns ErrServerClosed as soon as Shutdown has
\* been called; main logs "Server stopped" and returns, and the deferred
\* pool.Close() marks the pool closed
DoServeReturn ==
    /\ server.main = "serve"
    /\ server.inShutdown
    /\ server' = [server EXCEPT !.main = "closing", !.poolClosed = TRUE]
    /\ UNCHANGED requests
    /\ serverFrame

\* pool.Close() returns when every connection is back in the pool; main
\* returns and the process ends
DoPoolCloseReturn ==
    /\ server.main = "closing"
    /\ \A k \in 1..Len(requests) : requests[k].pc # "query"
    /\ server' = [server EXCEPT !.main = "exited",
                                !.shutdown = IF @ = "returned" THEN @ ELSE "killed"]
    /\ requests' = exit(requests)
    /\ serverFrame

Next == DoApply \/ DoFilterPassed \/ DoEvaluate

NextEval == DoApply \/ DoFilterPassed

NextVersion == DoVersion

NextNormalize == DoConvertEntries

NextCode == DoConvertEntries \/ DoApply

NextFetch == DoFetchPapers

NextStore == DoSave \/ DoSaveBatch

NextPipeline == DoPipeline \/ DoPipelineConfig \/ DoSync

NextConcurrent ==
    \/ \E k \in 1..Len(workers) : DoCount(k)
    \/ \E k \in 1..Len(workers) : DoLimitation(k)
    \/ \E k \in 1..Len(workers) : DoHype(k)
    \/ \E k \in 1..Len(workers) : DoFramework(k)
    \/ DoCollect

NextValidate == DoValidatePapers \/ DoIsValid \/ DoGenerateReport

NextClean == DoCleanStart \/ DoCleanPass \/ DoCleanReturn \/ DoCleanAgain

NextStats ==
    \/ \E c \in 1..Len(callers) : DoStatsExists(c)
    \/ \E c \in 1..Len(callers) : DoStatsSave(c)

NextSync == DoStartSync \/ DoCompleteSync \/ DoFailSync \/ DoGetLatestSync

NextServer ==
    \/ DoListenFail
    \/ DoAccept
    \/ \E k \in 1..Len(requests) : DoHandlerAcquire(k)
    \/ \E k \in 1..Len(requests) : DoHandlerRelease(k)
    \/ DoSignal
    \/ DoShutdownCall
    \/ DoShutdownReturn
    \/ DoServeReturn
    \/ DoPoolCloseReturn

Spec == Init /\ [][Next]_vars

SpecEval == InitEval /\ [][NextEval]_vars

SpecVersion == InitVersion /\ [][NextVersion]_vars

SpecNormalize == InitNormalize /\ [][NextNormalize]_vars

SpecFeed == InitFeed /\ [][NextNormalize]_vars

SpecCode == InitCode /\ [][NextCode]_vars

SpecFetch == InitFetch /\ [][NextFetch]_vars

SpecStore == InitStore /\ [][NextStore]_vars

SpecPipeline == InitPipeline /\ [][NextPipeline]_vars

SpecConcurrent == InitConcurrent /\ [][NextConcurrent]_vars

SpecValidate == InitValidate /\ [][NextValidate]_vars

SpecFramework == InitFramework /\ [][NextEval]_vars

SpecVersion64 == InitVersion64 /\ [][DoVersion64]_vars

\* a call that can take a step takes it
SpecClean == InitClean /\ [][NextClean]_vars /\ WF_vars(NextClean)

SpecStats == InitStats /\ [][NextStats]_vars

SpecSync == InitSync /\ [][NextSync]_vars

SpecServer == InitServer /\ [][NextServer]_vars

-----------------------------------------------------------------------------
(* Vocabulary of the properties. *)

\* text contains, in any letter case, one of the words
hasWord(text, words) == \E w \in words : Contains(ToLower(text), w)

\* the number of distinct evaluation keywords found in the abstract
evalCountOf(abstract) ==
    Cardinality({w \in {<<"e", "v", "a", "l", "u", "a", "t", "i", "o", "n">>, <<"e", "x", "p", "e", "r", "i", "m", "e", "n", "t">>, <<"b", "e", "n", "c", "h", "m", "a", "r", "k">>, <<"a", "b", "l", "a", "t", "i", "o", "n">>,
                        <<"b", "a", "s", "e", "l", "i", "n", "e">>, <<"d", "a", "t", "a", "s", "e", "t">>, <<"m", "e", "t", "r", "i", "c">>} :
                    Contains(ToLower(abstract), w)})

\* a strong signal other than the evaluation keywords
hasSignal(p) == acceptedPattern(p.Comments) \/ p.DOI # <<>> \/ p.JournalRef # <<>>

\* the sum of the deltas of the conditions that hold of p
deltaSum(p) ==
      (IF acceptedPattern(p.Comments) THEN 30 ELSE 0)
    + (IF p.DOI # <<>> \/ p.JournalRef # <<>> THEN 20 ELSE 0)
    + (IF evalCountOf(p.Abstract) >= 3 THEN 15 ELSE 0)
    + (IF hasWord(p.Abstract, {<<"a", "b", "l", "a", "t", "i", "o", "n">>, <<"b", "a", "s", "e", "l", "i", "n", "e">>}) THEN 10 ELSE 0)
    + (IF hasWord(p.Abstract, {<<"d", "a", "t", "a", "s", "e", "t">>, <<"b", "e", "n", "c", "h", "m", "a", "r", "k">>}) THEN 10 ELSE 0)
    + (IF hasCodeLink(p) THEN 10 ELSE 0)
    + (IF hasWord(p.Abstract, {<<"l", "i", "m", "i", "t", "a", "t", "i", "o", "n">>, <<"a", "s", "s", "u", "m", "p", "t", "i", "o", "n">>, <<"c", "o", "n", "s", "t", "r", "a", "i", "n", "t">>}) THEN 5 ELSE 0)
    + (IF Version(p.ID) >= 2 THEN 5 ELSE 0)
    - (IF \/ hasWord(p.Abstract, {<<"r", "e", "v", "o", "l", "u", "t", "i", "o", "n", "a", "r", "y">>, <<"g", "r", "o", "u", "n", "d", "b", "r", "e", "a", "k", "i", "n", "g">>, <<"f", "i", "r", "s", "t", " ", "e", "v", "e", "r">>, <<"f", "i", "r", "s", "t", "-", "e", "v", "e", "r">>})
          \/ hasWord(p.Title, {<<"r", "e", "v", "o", "l", "u", "t", "i", "o", "n", "a", "r", "y">>, <<"g", "r", "o", "u", "n", "d", "b", "r", "e", "a", "k", "i", "n", "g">>, <<"f", "i", "r", "s", "t", " ", "e", "v", "e", "r">>, <<"f", "i", "r", "s", "t", "-", "e", "v", "e", "r">>})
       THEN 10 ELSE 0)
    - (IF hasWord(p.Abstract, {<<"f", "r", "a", "m", "e", "w", "o", "r", "k">>, <<"p", "e", "r", "s", "p", "e", "c", "t", "i", "v", "e">>}) /\ evalCountOf(p.Abstract) = 0
       THEN 25 ELSE 0)

\* p with its computed fields at their zero values
strip(p) == [p EXCEPT !.Score = 0, !.ScoreDetails = <<>>]

\* p with the Score and Details of the FilterResult r attached
attach(p, r) == [p EXCEPT !.Score = r.Score, !.ScoreDetails = r.Details]

\* the title names the hype term "revolutionary" and the abstract no evaluation keyword
hypedUnevaluated(p) ==
    Contains(ToLower(p.Title), <<"r", "e", "v", "o", "l", "u", "t", "i", "o", "n", "a", "r", "y">>) /\ evalCountOf(p.Abstract) = 0

\* the 1-based place of the last 'v' of ID, 0 when it has none
lastV(ID) ==
    IF \E i \in 1..Len(ID) : ID[i] = "v"
    THEN CHOOSE i \in 1..Len(ID) : ID[i] = "v" /\ \A j \in (i + 1)..Len(ID) : ID[j] # "v"
    ELSE 0

\* the value of the maximal run of decimal digits of ID that starts at the
\* 1-based place i, with v read so far; 0 for an empty run
RECURSIVE digitRun(_, _, _)
digitRun(ID, i, v) ==
    IF i > Len(ID) \/ ~IsDigit(ID[i])
    THEN v
    ELSE digitRun(ID, i + 1, v * 10 + digitValue(ID[i]))

-----------------------------------------------------------------------------
(* The properties. *)

\* C1: the Score of every FilterResult of evaluate, and the Score attached to
\* every Paper FilterPassed returns, is an integer in 0..100.
C1_ScoreInRange ==
    /\ \A k \in 1..Len(results) : results[k].Score \in 0..100
    /\ \A k \in 1..Len(passed) : passed[k].Score \in 0..100

\* C1 witness: a Paper with all eight positive modifiers (sum 105) has been
\* evaluated and returned by FilterPassed with Score 100.
C1_Witness ==
    /\ done = {"Apply", "FilterPassed"}
    /\ Len(results[1].Details) = 8
    /\ deltaSum(papers[1]) = 105
    /\ results[1].Score = 100
    /\ Len(passed) = 1
    /\ passed[1].Score = 100

\* C2: PassedLevel1 is true exactly when (acceptance signal or DOI or journal
\* reference or evalCount >= 3) and evalCount >= 2; so evalCount >= 3 passes
\* with no other signal, and a signal with evalCount < 2 never passes.
C2_HardGate ==
    \A k \in 1..Len(results) :
        LET p == results[k].Paper
            n == evalCountOf(p.Abstract)
        IN  /\ results[k].PassedLevel1 <=> ((hasSignal(p) \/ n >= 3) /\ n >= 2)
            /\ n >= 3 => results[k].PassedLevel1
            /\ (hasSignal(p) /\ n < 2) => ~results[k].PassedLevel1

\* C2 witness: a Paper with an acceptance signal and a DOI but one evaluation
\* keyword has been evaluated and did not pass.
C2_Witness ==
    /\ "Apply" \in done
    /\ acceptedPattern(papers[1].Comments)
    /\ papers[1].DOI # <<>>
    /\ evalCountOf(papers[1].Abstract) = 1
    /\ ~results[1].PassedLevel1

\* C3: the Score evaluate returns is the sum of the fixed deltas of the
\* conditions that hold, clamped to 0 below and to 100 above.
C3_ScoreIsClampedSum ==
    \A k \in 1..Len(results) :
        LET sum == deltaSum(results[k].Paper)
        IN  results[k].Score = IF sum < 0 THEN 0 ELSE IF sum > 100 THEN 100 ELSE sum

\* C3 witness: a Paper whose deltas sum to -35 has been evaluated, with Score 0.
C3_Witness ==
    /\ "Apply" \in done
    /\ deltaSum(papers[1]) = -35
    /\ results[1].Details = <<"-10 hype language", "-25 unvalidated framework claim">>
    /\ results[1].Score = 0

\* C4: with Apply and FilterPassed both run on the same input, a Paper is in
\* the output of FilterPassed exactly when its FilterResult has PassedLevel1
\* and Score >= MinScore, and every returned Paper is an input Paper carrying
\* the Score and Details of its FilterResult.
C4_PassedIffBothLevels ==
    ({"Apply", "FilterPassed"} \subseteq done) =>
        /\ \A i \in 1..Len(papers) :
              (results[i].PassedLevel1 /\ results[i].Score >= MinScore)
                  <=> \E j \in 1..Len(passed) : passed[j] = attach(papers[i], results[i])
        /\ \A j \in 1..Len(passed) :
              \E i \in 1..Len(papers) :
                  /\ results[i].PassedLevel1
                  /\ results[i].Score >= MinScore
                  /\ passed[j] = attach(papers[i], results[i])

\* C4 witness: of two Papers, one with Score exactly MinScore was returned and
\* one with Score >= MinScore that failed Level 1 was not.
C4_Witness ==
    /\ {"Apply", "FilterPassed"} \subseteq done
    /\ Len(papers) = 2
    /\ Len(passed) = 1
    /\ passed[1].Score = MinScore
    /\ \E i \in 1..2 : ~results[i].PassedLevel1 /\ results[i].Score >= MinScore

\* C5: the output of FilterPassed is a subsequence of its input in the
\* original order, and a passing Paper occurs in it as often as in the input.
C5_StableSubsequence ==
    ("FilterPassed" \in done) =>
        /\ \E f \in [1..Len(passed) -> 1..Len(papers)] :
              /\ \A j \in 1..Len(passed) : strip(passed[j]) = strip(papers[f[j]])
              /\ \A j \in 1..(Len(passed) - 1) : f[j] < f[j + 1]
        /\ \A j \in 1..Len(passed) :
              Cardinality({m \in 1..Len(passed) : strip(passed[m]) = strip(passed[j])})
                  = Cardinality({i \in 1..Len(papers) : strip(papers[i]) = strip(passed[j])})

\* C5 witness: the same passing Paper was handed in twice and returned twice.
C5_Witness ==
    /\ "FilterPassed" \in done
    /\ Len(papers) = 2
    /\ papers[1] = papers[2]
    /\ Len(passed) = 2
    /\ passed[1] = passed[2]

\* C6: a run of Apply or FilterPassed on the same input and MinScore returns
\* what the earlier run returned, whatever was evaluated in between.
C6_RunsAgree ==
    [][/\ ("Apply" \in done /\ "Apply" \in done') => results' = results
       /\ ("FilterPassed" \in done /\ "FilterPassed" \in done') => passed' = passed]_vars

\* C6 witness: both have run on two Papers, one of which passed, and another
\* caller has had a Paper evaluated.
C6_Witness ==
    /\ done = {"Apply", "FilterPassed"}
    /\ scratch # <<>>
    /\ Len(results) = 2
    /\ Len(passed) = 1

\* C7 as stated: a Paper whose Title contains "revolutionary" and whose
\* Abstract has no evaluation keyword scores below 50.
C7_HypedBelow50 ==
    \A k \in 1..Len(results) :
        hypedUnevaluated(results[k].Paper) => results[k].Score < 50

\* C7 amended: such a Paper scores at most 60, and below 50 unless it has both
\* an acceptance signal and a DOI or journal reference.
C7_HypedBounded ==
    \A k \in 1..Len(results) :
        LET p == results[k].Paper
        IN  hypedUnevaluated(p) =>
                /\ results[k].Score <= 60
                /\ ~(acceptedPattern(p.Comments) /\ (p.DOI # <<>> \/ p.JournalRef # <<>>))
                       => results[k].Score < 50

\* C7 witness: such a Paper with an acceptance signal, a code link, a
\* limitation keyword and a second version, but no DOI, was scored 40.
C7_Witness ==
    /\ "Apply" \in done
    /\ hypedUnevaluated(papers[1])
    /\ acceptedPattern(papers[1].Comments)
    /\ papers[1].DOI = <<>>
    /\ results[1].Score = 40

\* C8 as stated: Version(ID) is the value of the maximal run of decimal digits
\* right after the last 'v' when that value is not zero, and 1 otherwise.
C8_LastVDecides ==
    ("Version" \in done) =>
        version = IF lastV(id) = 0
                  THEN 1
                  ELSE LET n == digitRun(id, lastV(id) + 1, 0)
                       IN  IF n # 0 THEN n ELSE 1

\* C9 as stated: the ID of a normalized Paper is what follows an "/abs/"
\* segment of the raw identifier whenever the raw identifier has one, and the
\* raw identifier only when it has none.
C9_AfterAbsSegment ==
    ("convertEntries" \in done) =>
        \A k \in 1..Len(feed) :
            LET raw == feed[k].ID
                abs == <<"/", "a", "b", "s", "/">>
            IN  IF Contains(raw, abs)
                THEN \E i \in 0..Len(raw) :
                        /\ HasPrefixAt(raw, i, abs)
                        /\ papers[k].ID = Slice(raw, i + Len(abs), Len(raw))
                ELSE papers[k].ID = raw

\* C10 as stated: every Paper convertEntries produces has a non-empty ID.
C10_NonEmptyID ==
    ("convertEntries" \in done) => \A k \in 1..Len(papers) : papers[k].ID # <<>>

\* s has no newline, no two consecutive spaces and no whitespace at either end
isClean(s) ==
    /\ \A k \in 1..Len(s) : s[k] # "\n"
    /\ \A k \in 1..(Len(s) - 1) : ~(s[k] = " " /\ s[k + 1] = " ")
    /\ s # <<>> => (~IsSpace(s[1]) /\ ~IsSpace(s[Len(s)]))

\* C11: the Title, Abstract and Comments of every normalized Paper are
\* cleanText results, and each has no newline character, no two consecutive
\* spaces and no leading or trailing whitespace, whatever the raw text was.
C11_CleanText ==
    ("convertEntries" \in done) =>
        \A k \in 1..Len(papers) :
            /\ papers[k].Title = cleanText(feed[k].Title)
            /\ papers[k].Abstract = cleanText(feed[k].Summary)
            /\ papers[k].Comments = cleanText(feed[k].Comment)
            /\ isClean(papers[k].Title)
            /\ isClean(papers[k].Abstract)
            /\ isClean(papers[k].Comments)

\* a raw title with a newline between two spaces has been normalized
C11_Witness ==
    /\ "convertEntries" \in done
    /\ feed[1].Title = <<"a", " ", "\n", " ", "a">>
    /\ papers[1].Title = <<"a", " ", "a">>

\* the raw values trimmed, those that are empty after trimming left out
trimmedNonEmpty(raws) ==
    SelectSeq([k \in 1..Len(raws) |-> TrimSpace(raws[k])], LAMBDA n : n # <<>>)

\* s is not empty and has no whitespace at either end
isTrimmedName(s) == s # <<>> /\ ~IsSpace(s[1]) /\ ~IsSpace(s[Len(s)])

\* C12: Authors (Categories) of a normalized Paper are exactly the trimmed
\* names (terms) of the entry's author (category) elements that are non-empty
\* after trimming, in feed order with repeated values kept; no element is
\* empty or has surrounding whitespace.
C12_AuthorsAndCategories ==
    ("convertEntries" \in done) =>
        \A k \in 1..Len(papers) :
            LET names == [j \in 1..Len(feed[k].Authors) |-> feed[k].Authors[j].Name]
                terms == [j \in 1..Len(feed[k].Categories) |-> feed[k].Categories[j].Term]
            IN  /\ papers[k].Authors = trimmedNonEmpty(names)
                /\ papers[k].Categories = trimmedNonEmpty(terms)
                /\ \A j \in 1..Len(papers[k].Authors) : isTrimmedName(papers[k].Authors[j])
                /\ \A j \in 1..Len(papers[k].Categories) : isTrimmedName(papers[k].Categories[j])

\* author elements with a blank name and the same name twice have been
\* extracted, and so have category elements
C12_Witness ==
    /\ "convertEntries" \in done
    /\ feed[1].Authors = <<[Name |-> <<" ", "A", " ">>], [Name |-> <<" ">>], [Name |-> <<"A">>]>>
    /\ papers[1].Authors = <<<<"A">>, <<"A">>>>
    /\ feed[1].Categories = <<[Term |-> <<"B", " ", "C", "\t">>], [Term |-> <<>>], [Term |-> <<"B", " ", "C", "\t">>]>>
    /\ papers[1].Categories = <<<<"B", " ", "C">>, <<"B", " ", "C">>>>

\* the link element names a PDF: by its MIME type or by the end of its URL
isPdfLink(l) == Contains(l.Type, <<"p", "d", "f">>) \/ HasSuffix(l.Href, <<".", "p", "d", "f">>)

\* the URL of the link element contains a repository host name
isRepoLink(l) == Contains(l.Href, <<"g", "i", "t", "h", "u", "b", ".", "c", "o", "m">>) \/ Contains(l.Href, <<"g", "i", "t", "l", "a", "b", ".", "c", "o", "m">>)

\* C13: the Links of a normalized Paper are the entry's link elements with a
\* non-empty URL, in feed order with URL and Title unchanged, and each has
\* exactly the Type of the first matching rule: pdf, then abstract (rel is
\* "alternate"), then code (repository host in the URL), then other.
C13_LinkPriority ==
    ("convertEntries" \in done) =>
        \A k \in 1..Len(papers) :
            LET kept == SelectSeq(feed[k].Links, LAMBDA l : l.Href # <<>>)
                links == papers[k].Links
            IN  /\ Len(links) = Len(kept)
                /\ \A j \in 1..Len(links) :
                      LET l == kept[j]
                          alt == l.Rel = <<"a", "l", "t", "e", "r", "n", "a", "t", "e">>
                      IN  /\ links[j].URL = l.Href
                          /\ links[j].Title = l.Title
                          /\ links[j].Type \in {"pdf", "abstract", "code", "other"}
                          /\ (links[j].Type = "pdf") <=> isPdfLink(l)
                          /\ (links[j].Type = "abstract") <=> (~isPdfLink(l) /\ alt)
                          /\ (links[j].Type = "code") <=> (~isPdfLink(l) /\ ~alt /\ isRepoLink(l))

\* an entry whose first link has no URL and whose second link is a repository
\* URL with rel "alternate" has been normalized to the one link of type abstract
C13_Witness ==
    /\ "convertEntries" \in done
    /\ feed[1].Links = <<AtomLink(<<>>, <<"r", "e", "l", "a", "t", "e", "d">>, <<>>, <<"t">>),
                         AtomLink(<<"h", "t", "t", "p", "s", ":", "/", "/", "g", "i", "t", "l", "a", "b", ".", "c", "o", "m", "/", "u", "/", "r">>, <<"a", "l", "t", "e", "r", "n", "a", "t", "e">>, <<>>, <<>>)>>
    /\ papers[1].Links = <<Link(<<"h", "t", "t", "p", "s", ":", "/", "/", "g", "i", "t", "l", "a", "b", ".", "c", "o", "m", "/", "u", "/", "r">>, "abstract", <<>>)>>

\* the evaluation result carries the +10 code-link modifier
earnedCodeLink(r) == \E j \in 1..Len(r.Details) : r.Details[j] = "+10 code link present"

\* the URL contains a repository host name, which is what normalization goes by
isRepoURL(url) == Contains(url, <<"g", "i", "t", "h", "u", "b", ".", "c", "o", "m">>) \/ Contains(url, <<"g", "i", "t", "l", "a", "b", ".", "c", "o", "m">>)

\* the modifier is applied exactly when the pattern matches in Abstract or in
\* Comments, or a Link has Type "code", or the pattern matches a Link's URL
codeLinkExactly(r) ==
    earnedCodeLink(r) <=>
        \/ codeRepoPattern(r.Paper.Abstract)
        \/ codeRepoPattern(r.Paper.Comments)
        \/ \E j \in 1..Len(r.Paper.Links) :
              \/ r.Paper.Links[j].Type = "code"
              \/ codeRepoPattern(r.Paper.Links[j].URL)

\* C14 as stated: the modifier is applied exactly in the four cases; every
\* Link classified as code earns it, and so does every repository URL that
\* normalization classified as pdf or abstract.
C14_CodeLinkModifier ==
    \A k \in 1..Len(results) :
        /\ codeLinkExactly(results[k])
        /\ \A j \in 1..Len(results[k].Paper.Links) :
              LET link == results[k].Paper.Links[j]
              IN  /\ link.Type = "code" => earnedCodeLink(results[k])
                  /\ (link.Type \in {"pdf", "abstract"} /\ isRepoURL(link.URL))
                        => earnedCodeLink(results[k])

\* C14, amended: the modifier is applied exactly in the four cases; every Link
\* classified as code earns it, and a Link classified as pdf or abstract earns
\* it when its URL matches the pattern, that is when http:// or https:// is
\* directly followed by github.com/ or gitlab.com/ and a non-space character.
C14_CodeLinkByPattern ==
    \A k \in 1..Len(results) :
        /\ codeLinkExactly(results[k])
        /\ \A j \in 1..Len(results[k].Paper.Links) :
              LET link == results[k].Paper.Links[j]
              IN  /\ link.Type = "code" => earnedCodeLink(results[k])
                  /\ (link.Type \in {"pdf", "abstract"} /\ codeRepoPattern(link.URL))
                        => earnedCodeLink(results[k])

\* a Paper whose only link is a repository URL classified as abstract has been
\* scored and carries the modifier
C14_Witness ==
    /\ Len(results) = 1
    /\ results[1].Paper.Links = <<Link(<<"h", "t", "t", "p", "s", ":", "/", "/", "g", "i", "t", "l", "a", "b", ".", "c", "o", "m", "/", "u", "/", "r">>, "abstract", <<>>)>>
    /\ ~codeRepoPattern(results[1].Paper.Abstract)
    /\ ~codeRepoPattern(results[1].Paper.Comments)
    /\ earnedCodeLink(results[1])

\* the body is a well-formed document whose root element is the feed
decodesAsFeed(body) == body.wellFormed /\ body.root = "feed"

\* the GET of the last call got no feed: a transport failure, a status other
\* than 200, or a body that does not decode as the feed
fetchFailed(reply) ==
    reply.transport \/ reply.status # StatusOK \/ ~decodesAsFeed(reply.body)

\* C15 as stated: when FetchPapers fails at any step (URL building, transport
\* failure, a status other than 200, a body that does not decode as the feed)
\* it returns a non-nil error and no papers, never a list with a nil error;
\* on success it returns one Paper per feed entry in feed order.
C15_FailureGivesError ==
    ("FetchPapers" \in done) =>
        IF urlParseFails(baseURL)
        THEN ret.err # "nil" /\ ret.isNil
        ELSE LET reply == gets[Len(gets)].reply
             IN  IF fetchFailed(reply)
                 THEN ret.err # "nil" /\ ret.isNil
                 ELSE /\ ret.err = "nil"
                      /\ ret.papers = [k \in 1..Len(reply.body.entries) |->
                                          convertEntry(reply.body.entries[k])]

\* the error FetchPapers returns for a base URL and the answer to its GET
outcome(base, reply) ==
    IF urlParseFails(base) THEN "build URL"
    ELSE IF reply.transport THEN "HTTP request"
    ELSE IF reply.status # StatusOK THEN "unexpected status code"
    ELSE IF ~reply.body.wellFormed THEN "decode XML"
    ELSE "nil"

isPipelineRun == run.cmd \in {"pipeline", "pipeline-config"}

\* the Paper passes both levels under the MinScore of the filter
passesBoth(p) ==
    \E r \in {evaluate(strip(p))} : r.PassedLevel1 /\ r.Score >= MinScore

\* the Paper carries the Score and the ScoreDetails of its evaluation
carriesScore(p) ==
    \E r \in {evaluate(strip(p))} : p.Score = r.Score /\ p.ScoreDetails = r.Details

\* C17 as stated: every Paper that sync hands to the persistence layer has
\* passed the quality filter (PassedLevel1 and Score >= MinScore), so a Paper
\* that fails the filter is never persisted by sync.
C17_SyncPersistsFiltered ==
    (run.cmd = "sync") =>
        /\ \A k \in 1..Len(handed.papers) : passesBoth(handed.papers[k])
        /\ \A r \in store : \E k \in 1..Len(run.fetched) :
              run.fetched[k].ID = r.id /\ passesBoth(run.fetched[k])

\* C18: in a run of the pipeline command without -skip-filter every Paper
\* handed to SaveBatch passed both levels and carries its Score and
\* ScoreDetails, and SaveBatch is not called when no Paper passed; with
\* -skip-db nothing is handed to storage and the table stays as it was.
C18_SavesOnlyPassed ==
    isPipelineRun =>
        /\ ~run.flags.skipFilter =>
              /\ \A k \in 1..Len(handed.papers) :
                    passesBoth(handed.papers[k]) /\ carriesScore(handed.papers[k])
              /\ (\A k \in 1..Len(run.recent) : ~passesBoth(run.recent[k])) => handed = NotHanded
        /\ run.flags.skipDB => (handed = NotHanded /\ store = {})

\* a run without -skip-filter and -skip-db handed SaveBatch one Paper of the
\* two that came through the time filter, and the table has its row
C18_Witness ==
    /\ isPipelineRun
    /\ ~run.flags.skipFilter
    /\ ~run.flags.skipDB
    /\ Len(run.recent) = 2
    /\ handed.op = "SaveBatch"
    /\ Len(handed.papers) = 1
    /\ handed.papers[1].Score >= MinScore
    /\ \E r \in store : r.id = handed.papers[1].ID

\* the MaxAgeDays a run is configured with: the -max-age flag, or the
\* recommendation of the preset when the flag is 0 and a preset is named
configuredMaxAge ==
    IF run.cmd = "pipeline" /\ run.flags.preset # "" /\ run.flags.maxAge = 0
    THEN Preset(run.flags.preset).MaxAgeDays
    ELSE run.flags.maxAge

\* C19 as stated: with MaxAgeDays 0 no Paper is removed because of its
\* UpdatedAt before the quality filter; with a positive MaxAgeDays exactly the
\* Papers updated after now minus MaxAgeDays days are kept, in feed order.
C19_ZeroIsUnlimited ==
    (isPipelineRun /\ run.end # "Failed to fetch papers") =>
        IF configuredMaxAge = 0
        THEN run.recent = run.fetched
        ELSE run.recent =
                SelectSeq(run.fetched, LAMBDA p : p.UpdatedAt > run.now - configuredMaxAge)

\* the columns of the row are the fields of the paper
carries(row, paper) ==
    /\ row.id = paper.ID
    /\ row.title = paper.Title
    /\ row.abstract = paper.Abstract
    /\ row.authors = paper.Authors
    /\ row.categories = paper.Categories
    /\ row.updated_at = paper.UpdatedAt

\* the last Paper of the sequence with the ID
lastWithID(ps, i) == ps[CHOOSE k \in 1..Len(ps) : ps[k].ID = i /\ \A j \in (k + 1)..Len(ps) : ps[j].ID # i]

\* C20: the table holds at most one row per ID; a successful Save or
\* SaveBatch leaves for each ID it was handed one row with the fields of the
\* last Paper handed with that ID, keeps every other row, and saving the same
\* Papers again changes nothing; a failed call leaves the table as it was.
C20_IdempotentUpsert ==
    [][LET ps == handed'.papers
           ids == {ps[k].ID : k \in 1..Len(ps)}
       IN  /\ \A r1, r2 \in store' : r1.id = r2.id => r1 = r2
           /\ IF handed'.err = "nil"
              THEN /\ \A i \in ids : \E r \in store' : carries(r, lastWithID(ps, i))
                   /\ \A r \in store : r.id \notin ids => r \in store'
                   /\ \A r \in store' : r.id \notin ids => r \in store
                   /\ \A r \in store' : r.id \in ids /\ r \notin store =>
                         \/ r.created_at = clock' /\ ~\E q \in store : q.id = r.id
                         \/ \E q \in store : q.id = r.id /\ q.created_at = r.created_at
                   /\ SaveBatch(store', ps, clock' + 1, TRUE).rows = store'
              ELSE store' = store]_vars

\* the Paper "a" was inserted by the first call and updated by a later one,
\* and the table has a second row
C20_Witness ==
    /\ clock >= 2
    /\ handed.err = "nil"
    /\ \E r \in store : r.id = <<"a">> /\ r.title = <<"T", "2">> /\ r.created_at = 1
    /\ \E r \in store : r.id = <<"b">>

\* C21: Apply and FilterPassed leave every Paper of the caller's sequence as
\* it was, its Score and ScoreDetails included; the Paper inside each
\* FilterResult of Apply is the input Paper; the Papers FilterPassed returns
\* are the only ones that get a new Score and ScoreDetails.
C21_InputUntouched ==
    [][/\ papers' = papers
       /\ Len(results') \in {0, Len(papers)}
       /\ \A k \in 1..Len(results') : results'[k].Paper = papers[k]
       /\ \A j \in 1..Len(passed') :
             \E k \in 1..Len(papers) :
                 passed'[j] = attach(papers[k], evaluate(papers[k]))]_vars

\* a Paper that came with Score 77 from an older scoring was evaluated and
\* returned with Score 55; the caller's Paper and the Paper of the
\* FilterResult still have Score 77
C21_Witness ==
    /\ done = {"Apply", "FilterPassed"}
    /\ papers # <<>>
    /\ papers[1].Score = 77
    /\ papers[1].ScoreDetails = <<"+77 old">>
    /\ results[1].Paper = papers[1]
    /\ results[1].Score = 55
    /\ passed # <<>>
    /\ passed[1].Score = 55
    /\ passed[1].ScoreDetails # papers[1].ScoreDetails

\* C22: Papers evaluated side by side in any interleaving, with the results
\* recollected in the order of the Papers, get the PassedLevel1, Score and
\* Details of the sequential evaluation and give the output of FilterPassed;
\* no step of an evaluation writes a keyword table.
C22_ConcurrentAsSequential ==
    [][/\ tables' = tables
       /\ ("collect" \in done') =>
             /\ results' = Apply(papers)
             /\ passed' = FilterPassed(papers)]_vars

\* the evaluation of the second Paper has returned, with the result of the
\* sequential evaluation, while the evaluation of the first is between its
\* reads of the keyword tables
C22_Witness ==
    /\ Len(papers) = 2
    /\ workers[1].pc = "hype"
    /\ workers[2].pc = "done"
    /\ papers[1] = BadPaper
    /\ papers[2] = GoodPaper
    /\ workerResult(workers[2], papers[2]) = evaluate(papers[2])
    /\ workerResult(workers[2], papers[2]).PassedLevel1

\* the entries of Details in the fixed order, each with the delta it names
ModifierNames ==
    <<"+30 acceptance signal", "+20 DOI/journal reference", "+15 strong empirical evidence",
      "+10 ablation/baseline study", "+10 dataset/benchmark", "+10 code link present",
      "+5 limitation discussion", "+5 multi-version iteration", "-10 hype language",
      "-25 unvalidated framework claim">>

ModifierDeltas == <<30, 20, 15, 10, 10, 10, 5, 5, -10, -25>>

\* which of the ten modifiers apply to p, in the fixed order
applied(p) ==
    << acceptedPattern(p.Comments),
       p.DOI # <<>> \/ p.JournalRef # <<>>,
       evalCountOf(p.Abstract) >= 3,
       hasWord(p.Abstract, {<<"a", "b", "l", "a", "t", "i", "o", "n">>, <<"b", "a", "s", "e", "l", "i", "n", "e">>}),
       hasWord(p.Abstract, {<<"d", "a", "t", "a", "s", "e", "t">>, <<"b", "e", "n", "c", "h", "m", "a", "r", "k">>}),
       hasCodeLink(p),
       hasWord(p.Abstract, {<<"l", "i", "m", "i", "t", "a", "t", "i", "o", "n">>, <<"a", "s", "s", "u", "m", "p", "t", "i", "o", "n">>, <<"c", "o", "n", "s", "t", "r", "a", "i", "n", "t">>}),
       Version(p.ID) >= 2,
       \/ hasWord(p.Abstract, {<<"r", "e", "v", "o", "l", "u", "t", "i", "o", "n", "a", "r", "y">>, <<"g", "r", "o", "u", "n", "d", "b", "r", "e", "a", "k", "i", "n", "g">>, <<"f", "i", "r", "s", "t", " ", "e", "v", "e", "r">>, <<"f", "i", "r", "s", "t", "-", "e", "v", "e", "r">>})
       \/ hasWord(p.Title, {<<"r", "e", "v", "o", "l", "u", "t", "i", "o", "n", "a", "r", "y">>, <<"g", "r", "o", "u", "n", "d", "b", "r", "e", "a", "k", "i", "n", "g">>, <<"f", "i", "r", "s", "t", " ", "e", "v", "e", "r">>, <<"f", "i", "r", "s", "t", "-", "e", "v", "e", "r">>}),
       hasWord(p.Abstract, {<<"f", "r", "a", "m", "e", "w", "o", "r", "k">>, <<"p", "e", "r", "s", "p", "e", "c", "t", "i", "v", "e">>}) /\ evalCountOf(p.Abstract) = 0 >>

\* the sum of the deltas the entries of details name
RECURSIVE namedSum(_)
namedSum(details) ==
    IF details = <<>>
    THEN 0
    ELSE ModifierDeltas[CHOOSE i \in 1..Len(ModifierNames) : ModifierNames[i] = Head(details)]
            + namedSum(Tail(details))

\* the order of the source, its reverse, the order with the two negative
\* modifiers first, and the orders with two neighbours exchanged
EvaluationOrders ==
    LET n == Len(ModifierNames)
        inOrder == [i \in 1..n |-> i]
    IN  {inOrder, [i \in 1..n |-> n + 1 - i], <<9, 10, 1, 2, 3, 4, 5, 6, 7, 8>>}
            \cup {[inOrder EXCEPT ![i] = i + 1, ![i + 1] = i] : i \in 1..(n - 1)}

\* C23: Details holds one entry for each modifier that applies and no other,
\* in the fixed order acceptance, DOI/journal reference, strong evidence,
\* ablation/baseline, dataset/benchmark, code link, limitation, multi-version,
\* hype, unvalidated framework; the deltas the entries name sum to the
\* unclamped total; evaluating the modifiers in another order gives the same
\* Score and the same entries in another order.
C23_DetailsInFixedOrder ==
    \A k \in 1..Len(results) :
        \E p \in {results[k].Paper} :
        \E a \in {applied(p)} :
        \E ms \in {modifiers(p)} :
            LET places == SelectSeq([i \in 1..Len(ModifierNames) |-> i], LAMBDA i : a[i])
                details == results[k].Details
                total == namedSum(details)
            IN  /\ details = [j \in 1..Len(places) |-> ModifierNames[places[j]]]
                /\ total = runModifiers(ms, [i \in 1..Len(ms) |-> i],
                                        [score |-> 0, details |-> <<>>]).score
                /\ results[k].Score = IF total < 0 THEN 0 ELSE IF total > 100 THEN 100 ELSE total
                /\ \A o \in EvaluationOrders :
                      \E s \in {scoreInOrder(ms, o)} :
                          /\ s.Score = results[k].Score
                          /\ Len(s.Details) = Len(details)
                          /\ {s.Details[j] : j \in 1..Len(s.Details)}
                                = {details[j] : j \in 1..Len(details)}

\* a second version of a Paper with a hype title, an acceptance signal and a
\* limitation keyword has been evaluated: four entries in the fixed order,
\* naming 30 + 5 + 5 - 10 = 30, and other orders of evaluation list the
\* entries differently
C23_Witness ==
    /\ "Apply" \in done
    /\ results[1].Details = <<"+30 acceptance signal", "+5 limitation discussion",
                              "+5 multi-version iteration", "-10 hype language">>
    /\ results[1].Score = 30
    /\ \E o \in EvaluationOrders :
          scoreInOrder(modifiers(papers[1]), o).Details # results[1].Details

\* the string is empty or all whitespace
isBlank(s) == \A k \in 1..Len(s) : IsSpace(s[k])

\* the Paper has a blank ID, a blank Title, no Authors or the zero UpdatedAt
hasDefect(p) == isBlank(p.ID) \/ isBlank(p.Title) \/ p.Authors = <<>> \/ p.UpdatedAt = 0

\* C24: ValidatePapers returns Valid + Invalid equal to the number of Papers;
\* a Paper is counted Invalid exactly when ValidatePaper reports an error for
\* it, which is when it has a blank ID, a blank Title, no Authors or the zero
\* UpdatedAt, and Valid otherwise; IsValid agrees; the report of the benchmark
\* has ValidPapers + InvalidPapers = TotalPapers.
C24_ValidPlusInvalid ==
    /\ ("ValidatePapers" \in done) =>
          /\ valResult.Valid + valResult.Invalid = Len(papers)
          /\ valResult.Invalid = Cardinality({k \in 1..Len(papers) : hasDefect(papers[k])})
          /\ valResult.Valid = Cardinality({k \in 1..Len(papers) : ~hasDefect(papers[k])})
          /\ \A k \in 1..Len(papers) : (ValidatePaper(papers[k]) # <<>>) <=> hasDefect(papers[k])
    /\ ("IsValid" \in done) =>
          \A k \in 1..Len(papers) : verdicts[k] <=> ~hasDefect(papers[k])
    /\ ("GenerateReport" \in done /\ ~report.isNil) =>
          /\ report.Summary.TotalPapers = Len(ret.papers)
          /\ report.Summary.ValidPapers + report.Summary.InvalidPapers
                = report.Summary.TotalPapers
          /\ report.Summary.InvalidPapers
                = Cardinality({k \in 1..Len(ret.papers) : hasDefect(ret.papers[k])})

\* a valid Paper and a Paper with four errors were counted one Valid and one
\* Invalid, IsValid said the same, and the report on a feed of three entries
\* counts one valid and two invalid papers
C24_Witness ==
    /\ done = {"ValidatePapers", "IsValid", "GenerateReport"}
    /\ Len(papers) = 2
    /\ valResult.Valid = 1
    /\ valResult.Invalid = 1
    /\ Len(valResult.Errors) = 4
    /\ verdicts = <<TRUE, FALSE>>
    /\ report.Summary = Summary(3, 1, 2)

\* the details list the modifier
lists(details, name) == \E j \in 1..Len(details) : details[j] = name

\* C25: a Paper with the -25 unvalidated-framework modifier has none of the
\* +15 strong-evidence, +10 ablation/baseline and +10 dataset/benchmark
\* modifiers, fails Level 1 and scores at most 45; FilterPassed never
\* returns it, whatever MinScore is.
C25_UnvalidatedFrameworkFails ==
    /\ \A k \in 1..Len(results) :
          lists(results[k].Details, "-25 unvalidated framework claim") =>
              /\ ~lists(results[k].Details, "+15 strong empirical evidence")
              /\ ~lists(results[k].Details, "+10 ablation/baseline study")
              /\ ~lists(results[k].Details, "+10 dataset/benchmark")
              /\ ~results[k].PassedLevel1
              /\ results[k].Score <= 45
    /\ \A j \in 1..Len(passed) :
          ~lists(passed[j].ScoreDetails, "-25 unvalidated framework claim")
    /\ ("FilterPassed" \in done) =>
          \A k \in 1..Len(papers) :
              (hasWord(papers[k].Abstract, {<<"f", "r", "a", "m", "e", "w", "o", "r", "k">>, <<"p", "e", "r", "s", "p", "e", "c", "t", "i", "v", "e">>})
                  /\ evalCountOf(papers[k].Abstract) = 0)
                      => \A j \in 1..Len(passed) : strip(passed[j]) # strip(papers[k])

\* a framework Paper with an acceptance signal, a DOI, a code link, a
\* limitation keyword and a second version scored 45 and was not returned by
\* a filter with MinScore 0
C25_Witness ==
    /\ done = {"Apply", "FilterPassed"}
    /\ MinScore = 0
    /\ lists(results[1].Details, "-25 unvalidated framework claim")
    /\ results[1].Score = 45
    /\ ~results[1].PassedLevel1
    /\ passed = <<>>

\* the number an int of 64 bits holds, when it is below 2^31
smallValue(v) == v[1] + v[2] * LimbBase

\* C26: Version returns an integer >= 1 for every identifier, also when the
\* digit run after the 'v' is so long that the accumulator wraps around; for
\* an identifier too short for that it returns the number computed without
\* a width.
C26_VersionAtLeastOne ==
    ("Version" \in done) =>
        /\ isPositive64(version)
        /\ ~isNegative64(version)
        /\ id \in IDs =>
              /\ \A k \in 3..Len(version) : version[k] = 0
              /\ smallValue(version) = Version(id)

\* the digit run 9223372036854775808 after the only 'v' wrapped around to the
\* lowest int, and Version returned 1
C26_Witness ==
    /\ "Version" \in done
    /\ id = <<"v", "9", "2", "2", "3", "3", "7", "2", "0", "3", "6", "8", "5", "4", "7", "7", "5", "8", "0", "8">>
    /\ isNegative64(versionDigits64(id, 1, zero64))
    /\ version = one64

\* C27: cleanText terminates on every string, each pass of its loop making
\* the string strictly shorter, and is idempotent: the call on the result of
\* a call returns that result; what the loop returns is cleanText of the
\* argument.
C27_TerminatesAndIdempotent ==
    /\ [][(cleaning.pc = "loop" /\ cleaning'.pc = "loop") => Len(cleaning'.s) < Len(cleaning.s)]_vars
    /\ <>(cleaning.pc = "returned" /\ Len(cleaning.outs) = 2)
    /\ [](\A k \in 1..Len(cleaning.outs) : cleaning.outs[k] = cleanText(cleaning.args[k]))
    /\ [](Len(cleaning.outs) = 2 => cleaning.outs[2] = cleaning.outs[1])

\* the loop is in its second pass over a text with four spaces in a row
C27_Witness ==
    /\ cleaning.args = <<<<"a", " ", " ", " ", " ", "a">>>>
    /\ cleaning.pc = "loop"
    /\ cleaning.s = <<"a", " ", " ", "a">>

\* the sum of newCount over the calls from the c-th on
RECURSIVE newCountSum(_, _)
newCountSum(cs, c) == IF c > Len(cs) THEN 0 ELSE cs[c].newCount + newCountSum(cs, c + 1)

\* C28 as stated: a call of SaveBatchWithStats that succeeds returns
\* newCount + updatedCount equal to the size of its batch and newCount equal
\* to the number of rows it added to the table, also for a batch that repeats
\* an ID and for calls that overlap; the newCounts of the calls sum to the
\* number of rows added.
C28_ExactCounts ==
    /\ \A c \in 1..Len(callers) :
          (callers[c].pc = "returned" /\ callers[c].err = "nil") =>
              /\ callers[c].newCount + callers[c].updatedCount = Len(callers[c].batch)
              /\ callers[c].newCount = callers[c].added
    /\ (\A c \in 1..Len(callers) : callers[c].pc = "returned" /\ callers[c].err = "nil") =>
          newCountSum(callers, 1) = Cardinality(store)

\* C29 as stated: a row of sync_log starts as running with no completion
\* time, and moves only from running to completed or to failed; a row that
\* is completed or failed never changes again, so it keeps its status and its
\* counts, and GetLatestSync returns no row that was marked failed.
C29_TerminalStatusStays ==
    [][/\ Len(syncLog') >= Len(syncLog)
       /\ \A k \in (Len(syncLog) + 1)..Len(syncLog') :
             syncLog'[k].Status = "running" /\ syncLog'[k].CompletedAt = 0
       /\ \A k \in 1..Len(syncLog) :
             IF syncLog[k].Status = "running"
             THEN syncLog'[k].Status \in {"running", "completed", "failed"}
             ELSE syncLog'[k] = syncLog[k]]_vars

\* C30 as stated: in the graceful shutdown of the API server the pool is
\* closed only after server.Shutdown has returned, and no handler of a
\* request gets to the pool after it was closed.
C30_PoolClosedAfterShutdown ==
    /\ server.poolClosed => server.shutdown = "returned"
    /\ \A k \in 1..Len(requests) : requests[k].pool # "closed"

====
